---- MODULE Spec2Model ----
(***************************************************************************)
(* The Resistance game engine of resistance/game.go: the session registry, *)
(* the per-session control loop (Game.daemon), the blocking command        *)
(* operations of its callers, and the game arithmetic they call.           *)
(***************************************************************************)
EXTENDS Integers, Sequences, FiniteSets, TLC

\* ------------------------------------------------------------------------
\* Bounds of the model
\* ------------------------------------------------------------------------
\* concurrent callers (one goroutine per webhook request) in Spec
NCallers == 2
\* users who may join the session in Spec
MaxUsers == 2
\* users who may join the session in SpecGame
GameUsers == 5
\* largest roster dealt in SpecDeal
DealMaxPlayers == 6
\* conf.GameVotingRound, a configuration option (default 5)
GameVotingRound == 2
\* conf.GameMaxPlayers as configured in SpecGame (default 10)
SmallMaxPlayers == 5
\* rounds played in SpecOpening
OpeningRounds == 2

\* ------------------------------------------------------------------------
\* Constants of the program
\* ------------------------------------------------------------------------
STATE_IDLE == 0
STATE_INITIALIZED == 1
STATE_PICK == 2
STATE_VOTING == 3
STATE_MISSION == 4

ROLE_SPY == 0
ROLE_RESISTANCE == 1

\* default of conf.GameMaxPlayers
DefaultMaxPlayers == 10

\* the nil pointer, and the nil error
Nil == "nil"
\* the sentinel identities of Game.start and Game.abort
TIMER == "timer"
SYSTEM == "system"
\* the nil *Config
NilConfig == [NPlayers |-> 0, NSpies |-> 0, NMembers |-> <<>>, NFail |-> <<>>, NRounds |-> 0]
\* the session ID (one session is modelled)
GameID == "g"

\* user IDs, in the order in which fresh users join
UserIDs == <<"p1", "p2", "p3", "p4", "p5", "p6", "p7", "p8", "p9", "p10", "p11">>
\* an ID that never joins
Stranger == "x"

gameConfigMap ==
  [n \in {1, 5, 6, 7, 8, 9, 10} |->
     CASE n = 1  -> [NPlayers |-> 1,  NSpies |-> 1, NMembers |-> <<1, 1, 1, 1, 1>>, NFail |-> <<1, 1, 1, 2, 1>>, NRounds |-> 5]
       [] n = 5  -> [NPlayers |-> 5,  NSpies |-> 2, NMembers |-> <<2, 3, 2, 3, 3>>, NFail |-> <<1, 1, 1, 1, 1>>, NRounds |-> 5]
       [] n = 6  -> [NPlayers |-> 6,  NSpies |-> 2, NMembers |-> <<2, 3, 4, 3, 4>>, NFail |-> <<1, 1, 1, 1, 1>>, NRounds |-> 5]
       [] n = 7  -> [NPlayers |-> 7,  NSpies |-> 3, NMembers |-> <<2, 3, 3, 4, 4>>, NFail |-> <<1, 1, 1, 2, 1>>, NRounds |-> 5]
       [] n = 8  -> [NPlayers |-> 8,  NSpies |-> 3, NMembers |-> <<3, 4, 4, 5, 5>>, NFail |-> <<1, 1, 1, 2, 1>>, NRounds |-> 5]
       [] n = 9  -> [NPlayers |-> 9,  NSpies |-> 3, NMembers |-> <<3, 4, 4, 5, 5>>, NFail |-> <<1, 1, 1, 2, 1>>, NRounds |-> 5]
       [] n = 10 -> [NPlayers |-> 10, NSpies |-> 4, NMembers |-> <<3, 4, 4, 5, 5>>, NFail |-> <<1, 1, 1, 2, 1>>, NRounds |-> 5]]

\* ------------------------------------------------------------------------
\* State
\* ------------------------------------------------------------------------
VARIABLES
  games,     \* the registry: the IDs mapped to the session
  game,      \* the fields of the Game (Players carry each Player's Role)
  d,         \* the control loop: its position and its local variables
  callers,   \* per caller goroutine: its position and the operation it is in
  notified   \* the EventHandler calls made by the control loop's latest step

vars == <<games, game, d, callers, notified>>

\* ------------------------------------------------------------------------
\* Values
\* ------------------------------------------------------------------------
EmptyMap == [k \in {} |-> TRUE]

Put(m, k, v) == [x \in (DOMAIN m) \cup {k} |-> IF x = k THEN v ELSE m[x]]

BoolStr(b) == IF b THEN "true" ELSE "false"

\* one EventHandler call: the callback, the player it names, its argument, its error
Ev(on, who, arg, err) == [on |-> on, who |-> who, arg |-> arg, err |-> err]

\* the result of a handler: the Game after it, the error it returns, its
\* EventHandler calls
Res(g, err, ev) == [game |-> g, err |-> err, ev |-> ev]

ErrFull == "Cannot add more players"
ErrDuplicate == "is already in the game"
ErrAbortRight == "Only players in the game can abort the game"
ErrStartRight == "Only players in the game can start the game"
ErrNumPlayers == "Number of players should be between"
ErrPickRight == "You have no right to choose"
ErrPickUnknown == "Cannot choose players who are not in the game"
ErrDoneRight == "You have no right to finish picking"
ErrPickCount == "You must choose exactly"
ErrNotInGame == "You are not in the game"
ErrNoMission == "No running mission"
ErrNotMember == "You are not part of mission"

\* ------------------------------------------------------------------------
\* Game: construction and lookups
\* ------------------------------------------------------------------------
\* the Game of NewGame with LeaderIndex 0
NewGameValue_leader0 ==
  [ID |-> GameID, Players |-> <<>>, NPlayers |-> 0, State |-> STATE_INITIALIZED,
   Round |-> 0, Picks |-> {}, VotingRound |-> 0, Votes |-> EmptyMap,
   LeaderIndex |-> 0, Missions |-> <<>>, Config |-> NilConfig,
   spyWonByRejection |-> FALSE]

NewGameValue ==
  [ID |-> GameID, Players |-> <<>>, NPlayers |-> 0, State |-> STATE_INITIALIZED,
   Round |-> 0, Picks |-> {}, VotingRound |-> 0, Votes |-> EmptyMap,
   LeaderIndex |-> -1, Missions |-> <<>>, Config |-> NilConfig,
   spyWonByRejection |-> FALSE]

\* the roster position (1-based) of the first player with this ID, 0 for nil
FindPlayerByID(g, id) ==
  IF \E i \in 1..Len(g.Players) : g.Players[i].ID = id
  THEN CHOOSE i \in 1..Len(g.Players) :
         /\ g.Players[i].ID = id
         /\ \A j \in 1..(i - 1) : g.Players[j].ID # id
  ELSE 0

PlayerIDs(g) == {g.Players[i].ID : i \in 1..Len(g.Players)}

RoleOf(g, id) == g.Players[FindPlayerByID(g, id)].Role

leader(g) == g.Players[g.LeaderIndex + 1]

cleanup(g) == [g EXCEPT !.State = STATE_IDLE]

\* ------------------------------------------------------------------------
\* Game: the handlers the control loop calls.  Each takes the Game and the
\* request data and yields the Game after it, the returned error and the
\* EventHandler calls.
\* ------------------------------------------------------------------------
\* addPlayer without the search for the ID in the roster
addPlayer_noDuplicate(conf, g, id) ==
  IF g.NPlayers = conf.GameMaxPlayers
  THEN Res(g, ErrFull, {Ev("OnAddPlayer", id, "", ErrFull)})
  ELSE Res([g EXCEPT !.NPlayers = @ + 1,
                     !.Players = Append(@, [ID |-> id, Role |-> ROLE_SPY])],
           Nil, {Ev("OnAddPlayer", id, "", Nil)})

addPlayer(conf, g, id) ==
  IF g.NPlayers = conf.GameMaxPlayers
  THEN Res(g, ErrFull, {Ev("OnAddPlayer", id, "", ErrFull)})
  ELSE IF \E i \in 1..Len(g.Players) : g.Players[i].ID = id
  THEN Res(g, ErrDuplicate, {Ev("OnAddPlayer", id, "", ErrDuplicate)})
  ELSE Res([g EXCEPT !.NPlayers = @ + 1,
                     !.Players = Append(@, [ID |-> id, Role |-> ROLE_SPY])],
           Nil, {Ev("OnAddPlayer", id, "", Nil)})

showPlayers(g) == Res(g, Nil, {Ev("OnShowPlayers", Nil, "", Nil)})

abort(g, aborter) ==
  LET p == FindPlayerByID(g, aborter) IN
  IF p = 0 /\ aborter # SYSTEM
  THEN Res(g, ErrAbortRight, {})
  ELSE Res(cleanup(g), Nil,
           {Ev("OnAbort", IF p = 0 THEN Nil ELSE aborter, "", Nil)})

\* Game.start with the table looked up and Config assigned before the test
\* of the starter
start_configEarly(g, starter) ==
  LET p == FindPlayerByID(g, starter)
      c == IF g.NPlayers \in DOMAIN gameConfigMap
           THEN gameConfigMap[g.NPlayers] ELSE NilConfig
      h == [g EXCEPT !.Config = c]
  IN
  IF p = 0 /\ starter # TIMER
  THEN Res(h, ErrStartRight, {Ev("OnStart", Nil, "", ErrStartRight)})
  ELSE IF g.NPlayers \notin DOMAIN gameConfigMap
  THEN Res(h, ErrNumPlayers,
           {Ev("OnStart", IF p = 0 THEN Nil ELSE starter, "", ErrNumPlayers)})
  ELSE Res(h, Nil, {})

\* Game.start up to the assignment of Config; randomizePlayers and
\* assignRoles follow step by step (ShuffleStep, RolesStep)
start(g, starter) ==
  LET p == FindPlayerByID(g, starter) IN
  IF p = 0 /\ starter # TIMER
  THEN Res(g, ErrStartRight, {Ev("OnStart", Nil, "", ErrStartRight)})
  ELSE IF g.NPlayers \notin DOMAIN gameConfigMap
  THEN Res(g, ErrNumPlayers,
           {Ev("OnStart", IF p = 0 THEN Nil ELSE starter, "", ErrNumPlayers)})
  ELSE Res([g EXCEPT !.Config = gameConfigMap[g.NPlayers]], Nil, {})

\* one iteration of the loop of randomizePlayers: swap Players[i], Players[x]
randomizePlayers(g, i, x) ==
  [g EXCEPT !.Players = [@ EXCEPT ![i + 1] = g.Players[x + 1],
                                  ![x + 1] = g.Players[i + 1]]]

\* the first loop of assignRoles
resetRoles(g) ==
  [g EXCEPT !.Players = [k \in 1..Len(g.Players) |->
                           [g.Players[k] EXCEPT !.Role = ROLE_RESISTANCE]]]

\* assignRoles without the test for a player who is a spy already
assignRoles_noSkip(g, numSpy, x) ==
  [game |-> [g EXCEPT !.Players[x + 1].Role = ROLE_SPY], numSpy |-> numSpy - 1]

\* one iteration of the second loop of assignRoles, with x the drawn index:
\* the Game and numSpy after it
assignRoles(g, numSpy, x) ==
  IF g.Players[x + 1].Role = ROLE_SPY
  THEN [game |-> g, numSpy |-> numSpy]
  ELSE [game |-> [g EXCEPT !.Players[x + 1].Role = ROLE_SPY],
        numSpy |-> numSpy - 1]

\* label pick with the roster rotated so that the leader stands first
enterPick_rotate(g) ==
  [g EXCEPT !.State = STATE_PICK,
            !.VotingRound = @ + 1,
            !.LeaderIndex = 0,
            !.Players = IF g.LeaderIndex >= 0 THEN Append(Tail(@), Head(@)) ELSE @,
            !.Picks = {}]

\* label pick with the leader kept when a proposal is repeated
enterPick_keepLeader(g) ==
  [g EXCEPT !.State = STATE_PICK,
            !.VotingRound = @ + 1,
            !.LeaderIndex = IF g.VotingRound = 0 THEN (@ + 1) % g.NPlayers ELSE @,
            !.Picks = {}]

\* label pick that keeps the Picks of the proposal before
enterPick_keepPicks(g) ==
  [g EXCEPT !.State = STATE_PICK,
            !.VotingRound = @ + 1,
            !.LeaderIndex = (@ + 1) % g.NPlayers]

\* the code of label pick up to the select loop
enterPick(g) ==
  [g EXCEPT !.State = STATE_PICK,
            !.VotingRound = @ + 1,
            !.LeaderIndex = (@ + 1) % g.NPlayers,
            !.Picks = {}]

\* pick without the removal of a target that is in Picks already
pick_noToggle(g, data) ==
  IF data.LeaderID # leader(g).ID
  THEN Res(g, ErrPickRight, {})
  ELSE IF FindPlayerByID(g, data.PlayerID) = 0
  THEN Res(g, ErrPickUnknown, {Ev("OnPick", leader(g).ID, Nil, ErrPickUnknown)})
  ELSE Res([g EXCEPT !.Picks = @ \cup {data.PlayerID}], Nil,
           {Ev("OnPick", leader(g).ID, data.PlayerID, Nil)})

pick(g, data) ==
  IF data.LeaderID # leader(g).ID
  THEN Res(g, ErrPickRight, {})
  ELSE IF data.PlayerID \in g.Picks
  THEN Res([g EXCEPT !.Picks = @ \ {data.PlayerID}], Nil,
           {Ev("OnUnpick", leader(g).ID, data.PlayerID, Nil)})
  ELSE IF FindPlayerByID(g, data.PlayerID) = 0
  THEN Res(g, ErrPickUnknown, {Ev("OnPick", leader(g).ID, Nil, ErrPickUnknown)})
  ELSE Res([g EXCEPT !.Picks = @ \cup {data.PlayerID}], Nil,
           {Ev("OnPick", leader(g).ID, data.PlayerID, Nil)})

\* donePick without the count of Picks
donePick_noCount(g, leaderID) ==
  IF leaderID # leader(g).ID
  THEN Res(g, ErrDoneRight, {})
  ELSE Res(g, Nil, {Ev("OnDonePick", leader(g).ID, "", Nil)})

\* donePick that reports a wrong actor to OnPick like its other error
donePick_notify(g, leaderID) ==
  IF leaderID # leader(g).ID
  THEN Res(g, ErrDoneRight, {Ev("OnPick", leader(g).ID, Nil, ErrDoneRight)})
  ELSE IF Cardinality(g.Picks) # g.Config.NMembers[g.Round]
  THEN Res(g, ErrPickCount, {Ev("OnPick", leader(g).ID, Nil, ErrPickCount)})
  ELSE Res(g, Nil, {Ev("OnDonePick", leader(g).ID, "", Nil)})

\* donePick that reports a team of the wrong size to OnDonePick
donePick_reportDone(g, leaderID) ==
  IF leaderID # leader(g).ID
  THEN Res(g, ErrDoneRight, {})
  ELSE IF Cardinality(g.Picks) # g.Config.NMembers[g.Round]
  THEN Res(g, ErrPickCount, {Ev("OnDonePick", leader(g).ID, "", ErrPickCount)})
  ELSE Res(g, Nil, {Ev("OnDonePick", leader(g).ID, "", Nil)})

donePick(g, leaderID) ==
  IF leaderID # leader(g).ID
  THEN Res(g, ErrDoneRight, {})
  ELSE IF Cardinality(g.Picks) # g.Config.NMembers[g.Round]
  THEN Res(g, ErrPickCount, {Ev("OnPick", leader(g).ID, Nil, ErrPickCount)})
  ELSE Res(g, Nil, {Ev("OnDonePick", leader(g).ID, "", Nil)})

\* the code of label voting up to the select loop
enterVoting(g) == [g EXCEPT !.State = STATE_VOTING, !.Votes = EmptyMap]

\* vote that keeps the vote a player has already cast
vote_keepFirst(g, data) ==
  IF FindPlayerByID(g, data.PlayerID) = 0
  THEN Res(g, ErrNotInGame, {})
  ELSE Res([g EXCEPT !.Votes = IF data.PlayerID \in DOMAIN @ THEN @
                                ELSE Put(@, data.PlayerID, data.Vote)], Nil,
           {Ev("OnVote", data.PlayerID, BoolStr(data.Vote), Nil)})

vote(g, data) ==
  IF FindPlayerByID(g, data.PlayerID) = 0
  THEN Res(g, ErrNotInGame, {})
  ELSE Res([g EXCEPT !.Votes = Put(@, data.PlayerID, data.Vote)], Nil,
           {Ev("OnVote", data.PlayerID, BoolStr(data.Vote), Nil)})

\* the loop of calculateVote over the entries with keys S: yes++ / yes--
RECURSIVE sumVotes(_, _)
sumVotes(votes, S) ==
  IF S = {} THEN 0
  ELSE LET k == CHOOSE x \in S : TRUE IN
       (IF votes[k] THEN 1 ELSE -1) + sumVotes(votes, S \ {k})

\* calculateVote without the players who did not vote
calculateVote_noSilent(g) == sumVotes(g.Votes, DOMAIN g.Votes) > 0

calculateVote(g) ==
  LET yes == sumVotes(g.Votes, DOMAIN g.Votes)
             - (g.NPlayers - Cardinality(DOMAIN g.Votes))
  IN yes > 0

\* the index of the current mission in Missions, 0 for nil
CurrentMission(g) ==
  IF g.State # STATE_MISSION THEN 0 ELSE Len(g.Missions)

\* startMission that numbers the Mission by the proposal, not by the round
startMission_votingRound(g) ==
  [g EXCEPT !.Missions =
     Append(@, [Round |-> g.VotingRound,
                Members |-> g.Picks,
                Success |-> FALSE,
                Votes |-> [id \in g.Picks |-> TRUE],
                MinFail |-> g.Config.NFail[g.Round]])]

\* startMission with the vote of a Spy member false by default
startMission_spiesFail(g) ==
  [g EXCEPT !.Missions =
     Append(@, [Round |-> g.Round,
                Members |-> g.Picks,
                Success |-> FALSE,
                Votes |-> [id \in g.Picks |-> RoleOf(g, id) = ROLE_RESISTANCE],
                MinFail |-> g.Config.NFail[g.Round]])]

startMission(g) ==
  [g EXCEPT !.Missions =
     Append(@, [Round |-> g.Round,
                Members |-> g.Picks,
                Success |-> FALSE,
                Votes |-> [id \in g.Picks |-> TRUE],
                MinFail |-> g.Config.NFail[g.Round]])]

\* the code of label mission up to the select loop
enterMission(g) == startMission([g EXCEPT !.State = STATE_MISSION])

\* executeMission without the test for a Resistance player
executeMission_noCoerce(g, data) ==
  LET m == CurrentMission(g) IN
  IF m = 0
  THEN Res(g, ErrNoMission, {})
  ELSE IF data.PlayerID \notin g.Missions[m].Members
  THEN Res(g, ErrNotMember, {})
  ELSE Res([g EXCEPT !.Missions[m].Votes[data.PlayerID] = data.Success], Nil,
           {Ev("OnExecuteMission", data.PlayerID, BoolStr(data.Success), Nil)})

\* executeMission with the role test inverted: the choice of a Spy is ignored
\* and that of a Resistance member recorded
executeMission_spyCoerced(g, data) ==
  LET m == CurrentMission(g) IN
  IF m = 0
  THEN Res(g, ErrNoMission, {})
  ELSE IF data.PlayerID \notin g.Missions[m].Members
  THEN Res(g, ErrNotMember, {})
  ELSE IF RoleOf(g, data.PlayerID) = ROLE_SPY
  THEN Res(g, Nil,
           {Ev("OnExecuteMission", data.PlayerID, BoolStr(data.Success), Nil)})
  ELSE Res([g EXCEPT !.Missions[m].Votes[data.PlayerID] = data.Success], Nil,
           {Ev("OnExecuteMission", data.PlayerID, BoolStr(data.Success), Nil)})

executeMission(g, data) ==
  LET m == CurrentMission(g) IN
  IF m = 0
  THEN Res(g, ErrNoMission, {})
  ELSE IF data.PlayerID \notin g.Missions[m].Members
  THEN Res(g, ErrNotMember, {})
  ELSE IF RoleOf(g, data.PlayerID) = ROLE_RESISTANCE
  THEN Res(g, Nil,
           {Ev("OnExecuteMission", data.PlayerID, BoolStr(data.Success), Nil)})
  ELSE Res([g EXCEPT !.Missions[m].Votes[data.PlayerID] = data.Success], Nil,
           {Ev("OnExecuteMission", data.PlayerID, BoolStr(data.Success), Nil)})

\* the loop of Mission.Execute over the entries with keys S: fail++
RECURSIVE countFail(_, _)
countFail(votes, S) ==
  IF S = {} THEN 0
  ELSE LET k == CHOOSE x \in S : TRUE IN
       (IF ~votes[k] THEN 1 ELSE 0) + countFail(votes, S \ {k})

\* Mission.Execute with fail <= MinFail
Execute_le(m) ==
  [m EXCEPT !.Success = countFail(m.Votes, DOMAIN m.Votes) <= m.MinFail]

Execute(m) ==
  [m EXCEPT !.Success = countFail(m.Votes, DOMAIN m.Votes) < m.MinFail]

\* the loop of SpyWin and ResistanceWin over Missions[1..n]: the number of
\* missions with Success = b
RECURSIVE countMissions(_, _, _)
countMissions(ms, n, b) ==
  IF n = 0 THEN 0
  ELSE (IF ms[n].Success = b THEN 1 ELSE 0) + countMissions(ms, n - 1, b)

\* SpyWin without the rounds still to play
SpyWin_noRemaining(g) ==
  IF g.Config = NilConfig THEN FALSE
  ELSE IF g.spyWonByRejection THEN TRUE
  ELSE countMissions(g.Missions, Len(g.Missions), FALSE)
       > countMissions(g.Missions, Len(g.Missions), TRUE)

\* SpyWin without the spyWonByRejection latch
SpyWin_noLatch(g) ==
  IF g.Config = NilConfig THEN FALSE
  ELSE LET fail == countMissions(g.Missions, Len(g.Missions), FALSE)
           success == countMissions(g.Missions, Len(g.Missions), TRUE)
                      + (g.Config.NRounds - Len(g.Missions))
       IN fail > success

SpyWin(g) ==
  IF g.Config = NilConfig THEN FALSE
  ELSE IF g.spyWonByRejection THEN TRUE
  ELSE LET fail == countMissions(g.Missions, Len(g.Missions), FALSE)
           success == countMissions(g.Missions, Len(g.Missions), TRUE)
                      + (g.Config.NRounds - Len(g.Missions))
       IN fail > success

\* ResistanceWin that asks for a lead of two missions
ResistanceWin_leadOfTwo(g) ==
  IF g.Config = NilConfig THEN FALSE
  ELSE IF g.spyWonByRejection THEN FALSE
  ELSE LET success == countMissions(g.Missions, Len(g.Missions), TRUE)
           fail == countMissions(g.Missions, Len(g.Missions), FALSE)
                   + (g.Config.NRounds - Len(g.Missions))
       IN success > fail + 1

ResistanceWin(g) ==
  IF g.Config = NilConfig THEN FALSE
  ELSE IF g.spyWonByRejection THEN FALSE
  ELSE LET success == countMissions(g.Missions, Len(g.Missions), TRUE)
           fail == countMissions(g.Missions, Len(g.Missions), FALSE)
                   + (g.Config.NRounds - Len(g.Missions))
       IN success > fail

Over(g) == SpyWin(g) \/ ResistanceWin(g)

\* ------------------------------------------------------------------------
\* The environment of a specification: the callers, the configuration and
\* the inputs they draw from
\* ------------------------------------------------------------------------
Min(a, b) == IF a < b THEN a ELSE b

Users(n) == {UserIDs[k] : k \in 1..n}

\* the values r.Intn(n) may return; a narrow environment bounds the random
\* stream: randomizePlayers draws 0, assignRoles draws one of the last two
\* roster positions
Intn(n) == 0..(n - 1)

ShuffleDraws(e, n) == IF e.wide THEN Intn(n) ELSE {0}

RoleDraws(e, n) == IF e.wide THEN Intn(n) ELSE {x \in Intn(n) : x >= n - 2}

\* player IDs are opaque: fresh users are named in the order they join, so a
\* new player is the next fresh user or one who already joined
AddInputs(e, g) == {UserIDs[k] : k \in 1..Min(g.NPlayers + 1, e.users)}

\* web callers racing each other, default configuration
EnvSpec ==
  [callers |-> 1..NCallers, direct |-> FALSE, users |-> MaxUsers, wide |-> TRUE,
   conf |-> [GameMaxPlayers |-> DefaultMaxPlayers, GameVotingRound |-> GameVotingRound],
   actors |-> Users(MaxUsers),
   targets |-> Users(MaxUsers),
   votes |-> Users(MaxUsers) \X BOOLEAN,
   execs |-> Users(MaxUsers) \X BOOLEAN]

\* one caller that holds the session (the command-line harness), full games
\* of GameUsers players
EnvGame ==
  [callers |-> {1}, direct |-> TRUE, users |-> GameUsers, wide |-> FALSE,
   conf |-> [GameMaxPlayers |-> SmallMaxPlayers, GameVotingRound |-> GameVotingRound],
   actors |-> Users(GameUsers) \cup {Stranger},
   targets |-> Users(3) \cup {Stranger},
   votes |-> (Users(3) \X {TRUE}) \cup {<<UserIDs[3], FALSE>>, <<Stranger, TRUE>>},
   execs |-> (Users(GameUsers) \cup {Stranger}) \X BOOLEAN]

\* one caller that holds the session, the users and inputs of EnvSpec: the
\* control loop receives a request only in the select loop of the State the
\* operation requires, so one caller delivers every sequence of requests
\* that racing callers deliver
EnvSolo == [EnvSpec EXCEPT !.callers = {1}, !.direct = TRUE]

\* no caller: the initialization timer starts the game, every random draw
EnvDeal ==
  [callers |-> {}, direct |-> TRUE, users |-> DealMaxPlayers, wide |-> TRUE,
   conf |-> [GameMaxPlayers |-> DefaultMaxPlayers, GameVotingRound |-> GameVotingRound],
   actors |-> {}, targets |-> {}, votes |-> {}, execs |-> {}]

\* ------------------------------------------------------------------------
\* The control loop and the callers
\* ------------------------------------------------------------------------
Loops == {"init", "pick", "voting", "mission"}

\* the State an operation requires before it sends its request (0: none)
Requires ==
  [op \in {"AddPlayer", "Start", "Abort", "Pick", "DonePick", "Vote",
           "ExecuteMission", "ShowPlayers"} |->
     CASE op \in {"AddPlayer", "Start"} -> {STATE_INITIALIZED}
       [] op \in {"Pick", "DonePick"} -> {STATE_PICK}
       [] op = "Vote" -> {STATE_VOTING}
       [] op = "ExecuteMission" -> {STATE_MISSION}
       [] OTHER -> {STATE_IDLE, STATE_INITIALIZED, STATE_PICK, STATE_VOTING, STATE_MISSION}]

Ops == DOMAIN Requires

\* the control loop at position pc of select loop `loop`: the request it
\* handles (op, from: the caller, 0 for the timer), the result err, and the
\* locals of start (the starting player, i of randomizePlayers, numSpy of
\* assignRoles)
Daemon(pc, loop, op, err, from, i, numSpy) ==
  [pc |-> pc, loop |-> loop, op |-> op, err |-> err, from |-> from,
   i |-> i, numSpy |-> numSpy, starter |-> Nil]

AtLoop(loop) == Daemon(loop, loop, "", Nil, 0, 0, 0)

\* the loop has computed the result of a request and sends it on the
\* operation's response channel
Replying(loop, op, err, from) == Daemon("reply", loop, op, err, from, 0, 0)

\* the loop has returned, out of select loop d.loop
Stopped(op, err, from) == Daemon("stopped", d.loop, op, err, from, 0, 0)

\* where caller c is once its operation has returned
Returned(e) == [pc |-> IF e.direct THEN "loaded" ELSE "idle", op |-> ""]

Sending(c, op) == callers[c].pc = "send" /\ callers[c].op = op

\* request channels with a buffer: the send of every caller of the operation
\* completes when the loop takes the request of c
Accept_buffered(c) ==
  callers' = [k \in DOMAIN callers |->
                IF callers[k].pc = "send" /\ callers[k].op = callers[c].op
                THEN [callers[k] EXCEPT !.pc = "wait"]
                ELSE callers[k]]

Accept(c) == callers' = [callers EXCEPT ![c].pc = "wait"]

Init(e) ==
  /\ games = {GameID}
  /\ game = NewGameValue
  /\ d = Daemon("create", "init", "", Nil, 0, 0, 0)
  /\ callers = [c \in e.callers |-> Returned(e)]
  /\ notified = {Ev("OnCreate", Nil, "", Nil)}

\* daemon: OnCreate returns and the init loop is entered
OnCreateReturns ==
  /\ d.pc = "create"
  /\ d' = AtLoop("init")
  /\ notified' = {}
  /\ UNCHANGED <<games, game, callers>>

\* ---- callers -------------------------------------------------------------
\* GameExistsByID finds the session
Exists(c) ==
  /\ callers[c].pc = "idle"
  /\ GameID \in games
  /\ callers' = [callers EXCEPT ![c].pc = "exists"]
  /\ UNCHANGED <<games, game, d, notified>>

\* LoadGame: the session, or nil, on which the command then panics
Load(e, c) ==
  /\ callers[c].pc = "exists"
  /\ callers' = [callers EXCEPT ![c].pc = IF GameID \in games THEN "loaded" ELSE "idle"]
  /\ UNCHANGED <<games, game, d, notified>>

\* the head of Game.AddPlayer, Start, Abort, Pick, DonePick, Vote,
\* ExecuteMission, ShowPlayers: the State check, before the request is sent
Call(e, c) ==
  /\ callers[c].pc = "loaded"
  /\ \E op \in Ops :
       callers' = [callers EXCEPT ![c] =
                     IF game.State \in Requires[op]
                     THEN [pc |-> "send", op |-> op]
                     ELSE Returned(e)]
  /\ UNCHANGED <<games, game, d, notified>>

\* the caller receives the response and returns
Reply(e, c) ==
  /\ d.pc = "reply"
  /\ callers[c].pc = "wait"
  /\ callers[c].op = d.op
  /\ callers' = [callers EXCEPT ![c] = Returned(e)]
  /\ notified' = {}
  /\ IF d.op = "Start" /\ d.err = Nil
       THEN /\ game' = [game EXCEPT !.Round = 1]
            /\ d' = Daemon("enter_pick", "pick", "", Nil, 0, 0, 0)
       ELSE IF d.op = "DonePick" /\ d.err = Nil
       THEN /\ game' = game
            /\ d' = Daemon("enter_voting", "voting", "", Nil, 0, 0, 0)
       ELSE /\ game' = game
            /\ d' = AtLoop(d.loop)
  /\ UNCHANGED games

\* ---- the select loops: one request is received and handled ---------------
\* case newPlayer := <-game.cAddPlayerData
RecvAddPlayer(e, c) ==
  /\ d.pc = "init"
  /\ Sending(c, "AddPlayer")
  /\ \E id \in AddInputs(e, game) :
       LET r == addPlayer(e.conf, game, id) IN
       /\ game' = r.game
       /\ d' = Replying("init", "AddPlayer", r.err, c)
       /\ notified' = r.ev
  /\ Accept(c)
  /\ UNCHANGED games

\* start(starter) went past its checks: randomizePlayers begins
Shuffling(g, from, starter) ==
  [Daemon("shuffle", "init", "Start", Nil, from, g.NPlayers - 1, 0)
     EXCEPT !.starter = IF FindPlayerByID(g, starter) = 0 THEN Nil ELSE starter]

\* case starter := <-game.cStartData
RecvStart(e, c) ==
  /\ d.pc = "init"
  /\ Sending(c, "Start")
  /\ \E starter \in e.actors :
       LET r == start(game, starter) IN
       /\ game' = r.game
       /\ d' = IF r.err = Nil THEN Shuffling(game, c, starter)
                              ELSE Replying("init", "Start", r.err, c)
       /\ notified' = r.ev
  /\ Accept(c)
  /\ UNCHANGED games

\* case <-initTimer.C: start("timer"), and abort("system") if it fails
InitTimer ==
  /\ d.pc = "init"
  /\ LET r == start(game, TIMER) IN
       IF r.err = Nil
       THEN /\ game' = r.game
            /\ d' = Shuffling(game, 0, TIMER)
            /\ notified' = r.ev
            /\ UNCHANGED games
       ELSE LET a == abort(r.game, SYSTEM) IN
            /\ game' = a.game
            /\ games' = IF a.err = Nil THEN games \ {game.ID} ELSE games
            /\ d' = Stopped("AutoStart", r.err, 0)
            /\ notified' = r.ev \cup a.ev
  /\ UNCHANGED callers

\* randomizePlayers: one iteration; after the last one assignRoles begins
ShuffleStep(e) ==
  /\ d.pc = "shuffle"
  /\ \E x \in ShuffleDraws(e, d.i + 1) :
       LET g == randomizePlayers(game, d.i, x) IN
       IF d.i > 0
       THEN /\ game' = g
            /\ d' = [d EXCEPT !.i = d.i - 1]
       ELSE /\ game' = resetRoles(g)
            /\ d' = [d EXCEPT !.pc = "roles", !.i = 0,
                              !.numSpy = game.Config.NSpies]
  /\ UNCHANGED <<games, callers, notified>>

\* assignRoles: one iteration of the dealing loop; after the last one start
\* returns nil, to the caller (game.cStart <- nil) or to label start
RolesStep(e) ==
  /\ d.pc = "roles"
  /\ \E x \in RoleDraws(e, game.NPlayers) :
       LET r == assignRoles(game, d.numSpy, x) IN
       IF r.numSpy > 0
       THEN /\ game' = r.game
            /\ d' = [d EXCEPT !.numSpy = r.numSpy]
            /\ UNCHANGED notified
       ELSE IF d.from = 0
       THEN /\ game' = [r.game EXCEPT !.Round = 1]
            /\ d' = Daemon("enter_pick", "pick", "", Nil, 0, 0, 0)
            /\ notified' = {Ev("OnStart", d.starter, "", Nil)}
       ELSE /\ game' = r.game
            /\ d' = Replying("init", "Start", Nil, d.from)
            /\ notified' = {Ev("OnStart", d.starter, "", Nil)}
  /\ UNCHANGED <<games, callers>>

\* case aborter := <-game.cAbortData, in each of the four loops:
\* game.abort(aborter); return
RecvAbort(e, c) ==
  /\ d.pc \in Loops
  /\ Sending(c, "Abort")
  /\ \E aborter \in e.actors :
       LET r == abort(game, aborter) IN
       /\ game' = r.game
       /\ games' = IF r.err = Nil THEN games \ {game.ID} ELSE games
       /\ d' = Stopped("Abort", r.err, c)
       /\ notified' = r.ev
  /\ Accept(c)

\* a loop that takes a ShowPlayers request before it has sent the response
\* of the request it handles
RecvShowPlayers_early(c) ==
  /\ d.pc \in Loops \cup {"reply"}
  /\ Sending(c, "ShowPlayers")
  /\ LET r == showPlayers(game) IN
       /\ game' = r.game
       /\ d' = Replying(d.loop, "ShowPlayers", r.err, c)
       /\ notified' = r.ev
  /\ Accept(c)
  /\ UNCHANGED games

\* case <-game.cShowPlayersData, in each of the four loops
RecvShowPlayers(c) ==
  /\ d.pc \in Loops
  /\ Sending(c, "ShowPlayers")
  /\ LET r == showPlayers(game) IN
       /\ game' = r.game
       /\ d' = Replying(d.loop, "ShowPlayers", r.err, c)
       /\ notified' = r.ev
  /\ Accept(c)
  /\ UNCHANGED games

\* label pick, after its sleep
EnterPick ==
  /\ d.pc = "enter_pick"
  /\ game' = enterPick(game)
  /\ d' = AtLoop("pick")
  /\ notified' = {Ev("OnStartPick", leader(game').ID, "", Nil)}
  /\ UNCHANGED <<games, callers>>

\* case data := <-game.cPickData
RecvPick(e, c) ==
  /\ d.pc = "pick"
  /\ Sending(c, "Pick")
  /\ \E l \in e.actors, t \in e.targets :
       LET r == pick(game, [LeaderID |-> l, PlayerID |-> t]) IN
       /\ game' = r.game
       /\ d' = Replying("pick", "Pick", r.err, c)
       /\ notified' = r.ev
  /\ Accept(c)
  /\ UNCHANGED games

\* case leader := <-game.cDonePickData
RecvDonePick(e, c) ==
  /\ d.pc = "pick"
  /\ Sending(c, "DonePick")
  /\ \E l \in e.actors :
       LET r == donePick(game, l) IN
       /\ game' = r.game
       /\ d' = Replying("pick", "DonePick", r.err, c)
       /\ notified' = r.ev
  /\ Accept(c)
  /\ UNCHANGED games

\* label voting, after its sleep
EnterVoting ==
  /\ d.pc = "enter_voting"
  /\ game' = enterVoting(game)
  /\ d' = AtLoop("voting")
  /\ notified' = {Ev("OnStartVoting", leader(game).ID, "", Nil)}
  /\ UNCHANGED <<games, callers>>

\* a voting loop that goes to the tally as soon as every player has voted
RecvVote_tallyWhenComplete(e, c) ==
  /\ d.pc = "voting"
  /\ Sending(c, "Vote")
  /\ \E v \in e.votes :
       LET r == vote(game, [PlayerID |-> v[1], Vote |-> v[2]]) IN
       /\ game' = r.game
       /\ d' = IF DOMAIN r.game.Votes = PlayerIDs(r.game)
               THEN Daemon("voting_done", "voting", "", Nil, 0, 0, 0)
               ELSE Replying("voting", "Vote", r.err, c)
       /\ notified' = r.ev
  /\ callers' = [callers EXCEPT ![c] =
                  IF DOMAIN game'.Votes = PlayerIDs(game') THEN Returned(e)
                  ELSE [@ EXCEPT !.pc = "wait"]]
  /\ UNCHANGED games

\* case data := <-game.cVoteData
RecvVote(e, c) ==
  /\ d.pc = "voting"
  /\ Sending(c, "Vote")
  /\ \E v \in e.votes :
       LET r == vote(game, [PlayerID |-> v[1], Vote |-> v[2]]) IN
       /\ game' = r.game
       /\ d' = Replying("voting", "Vote", r.err, c)
       /\ notified' = r.ev
  /\ Accept(c)
  /\ UNCHANGED games

\* case <-votingTimer.C
VotingTimer ==
  /\ d.pc = "voting"
  /\ d' = Daemon("voting_done", "voting", "", Nil, 0, 0, 0)
  /\ notified' = {}
  /\ UNCHANGED <<games, game, callers>>

\* label voting_done, after its sleeps: the tally and where it leads
VotingDone(e) ==
  /\ d.pc = "voting_done"
  /\ LET majority == calculateVote(game)
         done == Ev("OnVotingDone", Nil, BoolStr(majority), Nil)
     IN
     IF majority
     THEN /\ game' = enterMission(game)
          /\ d' = AtLoop("mission")
          /\ notified' = {done, Ev("OnStartMission", Nil, "", Nil)}
          /\ UNCHANGED games
     ELSE IF game.VotingRound = e.conf.GameVotingRound
     THEN /\ game' = cleanup([game EXCEPT !.spyWonByRejection = TRUE])
          /\ games' = games \ {game.ID}
          /\ d' = Stopped("Rejection", Nil, 0)
          /\ notified' = {done, Ev("OnSpyWin", Nil, "", Nil)}
     ELSE /\ game' = game
          /\ d' = Daemon("enter_pick", "pick", "", Nil, 0, 0, 0)
          /\ notified' = {done}
          /\ UNCHANGED games
  /\ UNCHANGED callers

\* case data := <-game.cExecuteMissionData
RecvExecuteMission(e, c) ==
  /\ d.pc = "mission"
  /\ Sending(c, "ExecuteMission")
  /\ \E x \in e.execs :
       LET r == executeMission(game, [PlayerID |-> x[1], Success |-> x[2]]) IN
       /\ game' = r.game
       /\ d' = Replying("mission", "ExecuteMission", r.err, c)
       /\ notified' = r.ev
  /\ Accept(c)
  /\ UNCHANGED games

\* case <-missionTimer.C, then label mission_done up to the call of
\* OnMissionDone, which the loop waits for
MissionTimer ==
  /\ d.pc = "mission"
  /\ game' = [game EXCEPT !.Missions[CurrentMission(game)] = Execute(@)]
  /\ d' = Daemon("mission_done", "mission", "", Nil, 0, 0, 0)
  /\ notified' = {Ev("OnMissionDone", Nil, BoolStr(game'.Missions[Len(game.Missions)].Success), Nil)}
  /\ UNCHANGED <<games, callers>>

\* OnMissionDone returns: the win evaluation; OnSpyWin and OnResistanceWin
\* are waited for as well
MissionDoneReturns ==
  /\ d.pc = "mission_done"
  /\ IF SpyWin(game)
     THEN /\ game' = game
          /\ d' = Daemon("spywin", "mission", "", Nil, 0, 0, 0)
          /\ notified' = {Ev("OnSpyWin", Nil, "", Nil)}
     ELSE IF ResistanceWin(game)
     THEN /\ game' = game
          /\ d' = Daemon("reswin", "mission", "", Nil, 0, 0, 0)
          /\ notified' = {Ev("OnResistanceWin", Nil, "", Nil)}
     ELSE /\ game' = [game EXCEPT !.Round = @ + 1, !.VotingRound = 0]
          /\ d' = Daemon("enter_pick", "pick", "", Nil, 0, 0, 0)
          /\ notified' = {}
  /\ UNCHANGED <<games, callers>>

\* OnSpyWin or OnResistanceWin returns: game.cleanup(); return
WinReturns ==
  /\ d.pc \in {"spywin", "reswin"}
  /\ game' = cleanup(game)
  /\ games' = games \ {game.ID}
  /\ d' = Stopped(IF d.pc = "spywin" THEN "SpyWin" ELSE "ResistanceWin", Nil, 0)
  /\ notified' = {}
  /\ UNCHANGED callers

\* ---- callers whose returned error is kept ---------------------------------
\* the error of the State check of each operation that has one
ErrState(op) ==
  CASE op = "AddPlayer" -> "Cannot add player to a running game"
    [] op = "Start" -> "Game already started"
    [] op = "Pick" -> "Cannot pick now"
    [] op = "DonePick" -> "Cannot done picking now"
    [] op = "Vote" -> "Cannot vote now"
    [] op = "ExecuteMission" -> "Cannot run mission now"

\* the head of an operation without the State check of Vote
checkState_noVote(g, op) ==
  IF op = "Vote" \/ g.State \in Requires[op] THEN Nil ELSE ErrState(op)

\* the head of Game.AddPlayer, Start, Pick, DonePick, Vote, ExecuteMission:
\* the error it returns before anything is sent, nil if it goes on to send
checkState(g, op) ==
  IF g.State \in Requires[op] THEN Nil ELSE ErrState(op)

\* an operation is called on the session: it returns its State error
\* ("failed") or goes on to send its request
Invoke(c) ==
  /\ callers[c].pc = "loaded"
  /\ \E op \in Ops :
       callers' = [callers EXCEPT ![c] =
                     [pc |-> IF checkState(game, op) = Nil THEN "send" ELSE "failed",
                      op |-> op]]
  /\ UNCHANGED <<games, game, d, notified>>

\* the caller drops the returned error and its handler ends
Dropped(e, c) ==
  /\ callers[c].pc = "failed"
  /\ callers' = [callers EXCEPT ![c] = Returned(e)]
  /\ UNCHANGED <<games, game, d, notified>>

\* ---- the registry ----------------------------------------------------------
\* GameExistsByID does not find the session (createGame, joinGame)
NotExists(c) ==
  /\ callers[c].pc = "idle"
  /\ GameID \notin games
  /\ callers' = [callers EXCEPT ![c].pc = "absent"]
  /\ UNCHANGED <<games, game, d, notified>>

\* a caller of the session that NewGame replaces in the registry: that
\* session is Idle and its loop has returned, so a pending send or receive
\* never completes ("hung"), and a reference still held is to the old
\* session ("old")
Retire(k) ==
  CASE k.pc \in {"send", "wait"} -> [pc |-> "hung", op |-> k.op]
    [] k.pc = "loaded" -> [pc |-> "old", op |-> ""]
    [] k.pc = "created" -> [pc |-> "old", op |-> "AddPlayer"]
    [] OTHER -> k

\* the session that NewGame allocates, registers and starts
Create(c) ==
  /\ games' = games \cup {GameID}
  /\ game' = NewGameValue
  /\ d' = Daemon("create", "init", "", Nil, 0, 0, 0)
  /\ notified' = {Ev("OnCreate", Nil, "", Nil)}
  /\ callers' = [k \in DOMAIN callers |->
                   IF k = c THEN [pc |-> "created", op |-> ""]
                   ELSE Retire(callers[k])]

\* NewGame without the lookup of the ID
NewGame_noLookup(c) ==
  /\ callers[c].pc = "absent"
  /\ Create(c)

\* NewGame, under lock.Lock(): the session the ID maps to, or a new one
NewGame(c) ==
  /\ callers[c].pc = "absent"
  /\ IF GameID \in games
     THEN /\ callers' = [callers EXCEPT ![c] = [pc |-> "created", op |-> ""]]
          /\ UNCHANGED <<games, game, d, notified>>
     ELSE Create(c)

\* DeleteGame: delete(games, id), whatever the session's State; its loop is
\* not told.  (The map is written under lock.RLock(); the step taken here is
\* the one a build without a concurrent reader produces.)
DeleteGame(c) ==
  /\ callers[c].pc = "idle"
  /\ games' = games \ {GameID}
  /\ UNCHANGED <<game, d, callers, notified>>

\* game.AddPlayer on the session NewGame returned (createGame, joinGame): the
\* State check
CallCreated(e, c) ==
  /\ callers[c].pc = "created"
  /\ callers' = [callers EXCEPT ![c] =
                   IF game.State \in Requires["AddPlayer"]
                   THEN [pc |-> "send", op |-> "AddPlayer"]
                   ELSE Returned(e)]
  /\ UNCHANGED <<games, game, d, notified>>

\* the commands of the callers that create and join: join and abort
RegistryOps == {"AddPlayer", "Abort"}

\* game.AddPlayer or game.Abort on the session LoadGame returned (joinGame,
\* abortGame): the State check
CallLoaded(e, c) ==
  /\ callers[c].pc = "loaded"
  /\ \E op \in RegistryOps :
       callers' = [callers EXCEPT ![c] =
                     IF game.State \in Requires[op]
                     THEN [pc |-> "send", op |-> op]
                     ELSE Returned(e)]
  /\ UNCHANGED <<games, game, d, notified>>

\* an operation on a replaced session, whose State is Idle: AddPlayer
\* returns at the State check, Abort sends and blocks
CallOld(e, c) ==
  /\ callers[c].pc = "old"
  /\ \E op \in RegistryOps :
       /\ callers[c].op \in {"", op}
       /\ callers' = [callers EXCEPT ![c] =
                        IF STATE_IDLE \in Requires[op]
                        THEN [pc |-> "hung", op |-> op]
                        ELSE Returned(e)]
  /\ UNCHANGED <<games, game, d, notified>>

\* ---- callers that remember where their call was issued --------------------
\* the instance of a phase: the proposal (Round, VotingRound) it belongs to
PhaseOf(g) == <<g.Round, g.VotingRound>>

\* the head of an operation as in Call; the caller that goes on to send
\* remembers the proposal during which it passed the State check (a history
\* field, not state of the program)
CallAt(e, c) ==
  /\ callers[c].pc = "loaded"
  /\ \E op \in Ops :
       callers' = [callers EXCEPT ![c] =
                     IF game.State \in Requires[op]
                     THEN [pc |-> "send", op |-> op, at |-> PhaseOf(game)]
                     ELSE Returned(e)]
  /\ UNCHANGED <<games, game, d, notified>>

\* ---- the registry lock -----------------------------------------------------
\* the positions of a caller inside a registry operation, between its
\* lock.RLock() or lock.Lock() and the deferred unlock
ReadSections == {"in_exists", "in_load", "in_delete"}

Sections == ReadSections \cup {"in_new"}

\* the callers that hold lock for reading, and for writing
Readers == {c \in DOMAIN callers : callers[c].pc \in ReadSections}

Writers == {c \in DOMAIN callers : callers[c].pc = "in_new"}

\* lock.RLock() of GameExistsByID or DeleteGame, and of the LoadGame that
\* follows a GameExistsByID that found the session: granted while no writer
\* holds the lock
RLock(c) ==
  /\ Writers = {}
  /\ \/ /\ callers[c].pc = "idle"
        /\ \E s \in {"in_exists", "in_delete"} :
             callers' = [callers EXCEPT ![c].pc = s]
     \/ /\ callers[c].pc = "exists"
        /\ callers' = [callers EXCEPT ![c].pc = "in_load"]
  /\ UNCHANGED <<games, game, d, notified>>

\* lock.Lock() of the NewGame that follows a GameExistsByID that did not
\* find the session: granted while nobody holds the lock.  The callers
\* create a session only in place of one whose loop has returned.
Lock(c) ==
  /\ callers[c].pc = "absent"
  /\ Readers = {} /\ Writers = {}
  /\ GameID \in games \/ d.pc = "stopped"
  /\ callers' = [callers EXCEPT ![c].pc = "in_new"]
  /\ UNCHANGED <<games, game, d, notified>>

\* GameExistsByID and LoadGame read the map and unlock; the handler goes on
\* with what GameExistsByID returned, and ends after LoadGame
ReadUnlock(c) ==
  /\ callers[c].pc \in {"in_exists", "in_load"}
  /\ callers' = [callers EXCEPT ![c].pc =
                   IF callers[c].pc = "in_load" THEN "idle"
                   ELSE IF GameID \in games THEN "exists" ELSE "absent"]
  /\ UNCHANGED <<games, game, d, notified>>

\* DeleteGame writes the map under the read lock and unlocks.  Next to
\* another holder of the read lock the write is a data race: the entry is
\* deleted, or the runtime detects the concurrent map access and ends the
\* process ("fault").
DeleteUnlock(c) ==
  /\ callers[c].pc = "in_delete"
  /\ \/ /\ games' = games \ {GameID}
        /\ callers' = [callers EXCEPT ![c].pc = "idle"]
        /\ UNCHANGED d
     \/ /\ Readers # {c}
        /\ callers' = [k \in DOMAIN callers |-> [callers[k] EXCEPT !.pc = "fault"]]
        /\ d' = [d EXCEPT !.pc = "fault"]
        /\ UNCHANGED games
  /\ UNCHANGED <<game, notified>>

\* NewGame looks the ID up, registers and starts a session if there is
\* none, and unlocks
NewUnlock(c) ==
  /\ callers[c].pc = "in_new"
  /\ callers' = [callers EXCEPT ![c].pc = "idle"]
  /\ IF GameID \in games
     THEN UNCHANGED <<games, game, d, notified>>
     ELSE /\ games' = games \cup {GameID}
          /\ game' = NewGameValue
          /\ d' = Daemon("create", "init", "", Nil, 0, 0, 0)
          /\ notified' = {Ev("OnCreate", Nil, "", Nil)}

\* the initialization timer of a session without players: abort("system"),
\* whose cleanup takes lock.Lock()
LockedCleanup ==
  /\ Readers = {} /\ Writers = {}
  /\ InitTimer

\* ------------------------------------------------------------------------
\* Specifications
\* ------------------------------------------------------------------------
CallerStep(e, c) ==
  \/ Exists(c)
  \/ Load(e, c)
  \/ Call(e, c)
  \/ Reply(e, c)

Receive(e, c) ==
  \/ RecvAddPlayer(e, c)
  \/ RecvStart(e, c)
  \/ RecvAbort(e, c)
  \/ RecvShowPlayers(c)
  \/ RecvPick(e, c)
  \/ RecvDonePick(e, c)
  \/ RecvVote(e, c)
  \/ RecvExecuteMission(e, c)

Starting(e) ==
  \/ InitTimer
  \/ ShuffleStep(e)
  \/ RolesStep(e)

Playing(e) ==
  \/ OnCreateReturns
  \/ EnterPick
  \/ EnterVoting
  \/ VotingTimer
  \/ VotingDone(e)
  \/ MissionTimer
  \/ MissionDoneReturns
  \/ WinReturns

InitSpec == Init(EnvSpec)

Next ==
  \/ \E c \in EnvSpec.callers : CallerStep(EnvSpec, c)
  \/ \E c \in EnvSpec.callers : Receive(EnvSpec, c)
  \/ Starting(EnvSpec)
  \/ Playing(EnvSpec)

Spec == InitSpec /\ [][Next]_vars

InitGame == Init(EnvGame)

NextGame ==
  \/ \E c \in EnvGame.callers : Call(EnvGame, c) \/ Reply(EnvGame, c)
  \/ \E c \in EnvGame.callers : Receive(EnvGame, c)
  \/ Starting(EnvGame)
  \/ Playing(EnvGame)

SpecGame == InitGame /\ [][NextGame]_vars

InitSolo == Init(EnvSolo)

NextSolo ==
  \/ \E c \in EnvSolo.callers : Call(EnvSolo, c) \/ Reply(EnvSolo, c)
  \/ \E c \in EnvSolo.callers : Receive(EnvSolo, c)
  \/ Starting(EnvSolo)
  \/ Playing(EnvSolo)

SpecSolo == InitSolo /\ [][NextSolo]_vars

\* one web caller with the users and inputs of EnvSpec
EnvWeb == [EnvSpec EXCEPT !.callers = {1}]

InitWeb == Init(EnvWeb)

\* one web caller, the error each operation returns kept until its handler
\* ends
NextWeb ==
  \/ \E c \in EnvWeb.callers : Exists(c)
  \/ \E c \in EnvWeb.callers : Load(EnvWeb, c)
  \/ \E c \in EnvWeb.callers : Invoke(c)
  \/ \E c \in EnvWeb.callers : Dropped(EnvWeb, c)
  \/ \E c \in EnvWeb.callers : Reply(EnvWeb, c)
  \/ \E c \in EnvWeb.callers : Receive(EnvWeb, c)
  \/ Starting(EnvWeb)
  \/ Playing(EnvWeb)

SpecWeb == InitWeb /\ [][NextWeb]_vars

\* web callers racing each other up to the resolution of the first mission
NextRace ==
  \/ \E c \in EnvSpec.callers : CallerStep(EnvSpec, c)
  \/ \E c \in EnvSpec.callers : Receive(EnvSpec, c)
  \/ Starting(EnvSpec)
  \/ OnCreateReturns
  \/ EnterPick
  \/ EnterVoting
  \/ VotingTimer
  \/ VotingDone(EnvSpec)
  \/ MissionTimer

SpecRace == InitSpec /\ [][NextRace]_vars

\* the commands of callers that never abort
PlayOps == Ops \ {"Abort"}

\* the head of an operation other than Abort: the State check
CallPlay(e, c) ==
  /\ callers[c].pc = "loaded"
  /\ \E op \in PlayOps :
       callers' = [callers EXCEPT ![c] =
                     IF game.State \in Requires[op]
                     THEN [pc |-> "send", op |-> op]
                     ELSE Returned(e)]
  /\ UNCHANGED <<games, game, d, notified>>

ReceivePlay(e, c) ==
  \/ RecvAddPlayer(e, c)
  \/ RecvStart(e, c)
  \/ RecvShowPlayers(c)
  \/ RecvPick(e, c)
  \/ RecvDonePick(e, c)
  \/ RecvVote(e, c)
  \/ RecvExecuteMission(e, c)

\* one caller that holds the session and never aborts it; it may stop
\* sending commands at any point or go on sending them forever
NextLive ==
  \/ \E c \in EnvSolo.callers : CallPlay(EnvSolo, c) \/ Reply(EnvSolo, c)
  \/ \E c \in EnvSolo.callers : ReceivePlay(EnvSolo, c)
  \/ Starting(EnvSolo)
  \/ Playing(EnvSolo)

\* with WF for the timers: a timer that is served only if no request is
\* ever ready
SelectFairness_weak ==
  /\ WF_vars(\E c \in EnvSolo.callers : Reply(EnvSolo, c))
  /\ WF_vars(VotingDone(EnvSolo))
  /\ WF_vars(VotingTimer)
  /\ WF_vars(MissionTimer)

\* the scheduling of the control loop.  A response is received by the caller
\* that waits for it, and the pause of voting_done ends.  A select with
\* several ready cases picks one at random: a timer that has fired stays
\* ready each time the loop is back at its select, and is picked in the end
\* however often a request is ready too (strong fairness).
SelectFairness ==
  /\ WF_vars(\E c \in EnvSolo.callers : Reply(EnvSolo, c))
  /\ WF_vars(VotingDone(EnvSolo))
  /\ SF_vars(VotingTimer)
  /\ SF_vars(MissionTimer)

SpecLive == InitSolo /\ [][NextLive]_vars /\ SelectFairness

\* web callers inside the registry operations, each between taking and
\* releasing the registry lock; the sessions have no players and end by
\* their initialization timer
NextLock ==
  \/ \E c \in EnvSpec.callers : RLock(c)
  \/ \E c \in EnvSpec.callers : Lock(c)
  \/ \E c \in EnvSpec.callers : ReadUnlock(c)
  \/ \E c \in EnvSpec.callers : DeleteUnlock(c)
  \/ \E c \in EnvSpec.callers : NewUnlock(c)
  \/ OnCreateReturns
  \/ LockedCleanup

SpecLock == InitSpec /\ [][NextLock]_vars

\* the web callers of SpecRace, each remembering where its call was issued
NextIssued ==
  \/ \E c \in EnvSpec.callers : Exists(c)
  \/ \E c \in EnvSpec.callers : Load(EnvSpec, c)
  \/ \E c \in EnvSpec.callers : CallAt(EnvSpec, c)
  \/ \E c \in EnvSpec.callers : Reply(EnvSpec, c)
  \/ \E c \in EnvSpec.callers : Receive(EnvSpec, c)
  \/ Starting(EnvSpec)
  \/ OnCreateReturns
  \/ EnterPick
  \/ EnterVoting
  \/ VotingTimer
  \/ VotingDone(EnvSpec)
  \/ MissionTimer

SpecIssued == InitSpec /\ [][NextIssued]_vars

\* the first OpeningRounds rounds of the games of SpecGame: the mission of
\* round OpeningRounds is resolved and the game is followed no further
NextOpening ==
  \/ \E c \in EnvGame.callers : Call(EnvGame, c) \/ Reply(EnvGame, c)
  \/ \E c \in EnvGame.callers : Receive(EnvGame, c)
  \/ Starting(EnvGame)
  \/ OnCreateReturns
  \/ EnterPick
  \/ EnterVoting
  \/ VotingTimer
  \/ VotingDone(EnvGame)
  \/ MissionTimer
  \/ (game.Round < OpeningRounds /\ MissionDoneReturns)

SpecOpening == InitGame /\ [][NextOpening]_vars

\* the session in the init loop with a roster of n players, as n AddPlayer
\* calls leave it
InitDeal ==
  \E n \in 1..DealMaxPlayers :
    /\ games = {GameID}
    /\ game = [NewGameValue EXCEPT
                 !.NPlayers = n,
                 !.Players = [k \in 1..n |-> [ID |-> UserIDs[k], Role |-> ROLE_SPY]]]
    /\ d = AtLoop("init")
    /\ callers = [c \in EnvDeal.callers |-> Returned(EnvDeal)]
    /\ notified = {}

NextDeal == Starting(EnvDeal)

SpecDeal == InitDeal /\ [][NextDeal]_vars

\* web callers that create the session when they do not find it, join it
\* and abort it; the initialization timer starts the game
RegistryStep(e, c) ==
  \/ NotExists(c)
  \/ NewGame(c)
  \/ CallCreated(e, c)
  \/ Exists(c)
  \/ Load(e, c)
  \/ CallLoaded(e, c)
  \/ CallOld(e, c)
  \/ Reply(e, c)
  \/ RecvAddPlayer(e, c)
  \/ RecvAbort(e, c)

NextRegistry ==
  \/ \E c \in EnvSpec.callers : RegistryStep(EnvSpec, c)
  \/ Starting(EnvSpec)
  \/ OnCreateReturns
  \/ EnterPick

SpecRegistry == InitSpec /\ [][NextRegistry]_vars

\* web callers that also use the registry's DeleteGame
NextDelete ==
  \/ Next
  \/ \E c \in EnvSpec.callers : DeleteGame(c)

SpecDelete == InitSpec /\ [][NextDelete]_vars

\* ------------------------------------------------------------------------
\* Properties
\* ------------------------------------------------------------------------
Spies(g) == {i \in 1..Len(g.Players) : g.Players[i].Role = ROLE_SPY}

\* Game.start has returned nil
StartSucceeded == game.Config # NilConfig /\ d.pc \notin {"shuffle", "roles"}

\* C1: after a successful Start of a roster of a supported size, exactly
\* Config.NSpies players are spies and every other roster player is
\* Resistance, whatever the shuffle and the dealing drew.
C1_SpyCount ==
  StartSucceeded =>
    /\ game.NPlayers \in {1, 5, 6, 7, 8, 9, 10}
    /\ Len(game.Players) = game.NPlayers
    /\ game.Config = gameConfigMap[game.NPlayers]
    /\ Cardinality(Spies(game)) = game.Config.NSpies
    /\ \A i \in 1..Len(game.Players) :
         i \notin Spies(game) => game.Players[i].Role = ROLE_RESISTANCE
    /\ PlayerIDs(game) = Users(game.NPlayers)

\* a dealt roster of five whose first player moved and became a spy
C1_Witness ==
  /\ StartSucceeded
  /\ game.NPlayers = 5
  /\ game.Players[1].ID # UserIDs[1]
  /\ game.Players[1].Role = ROLE_SPY
  /\ game.Players[5].Role = ROLE_RESISTANCE

\* C2: no operation blocks forever.  A caller whose request the loop has
\* taken is answered before the loop returns: no caller is left waiting for
\* a response of a loop that has stopped.
C2_EveryCallAnswered ==
  \A c \in DOMAIN callers : callers[c].pc = "wait" => d.pc # "stopped"

\* C3: whenever the control loop has stopped, the session is removed from
\* the registry and its State is Idle.
C3_StoppedMeansRemoved ==
  d.pc = "stopped" => (GameID \notin games /\ game.State = STATE_IDLE)

\* C4: an Abort by an actor who is neither a player nor "system" is rejected
\* without effect: the session stays registered and the loop keeps serving.
C4_RejectedAbortNoEffect ==
  (d.op = "Abort" /\ d.err = ErrAbortRight) =>
    (d.pc # "stopped" /\ GameID \in games)

\* C5: an operation that found the session in the registry and went past its
\* State check is processed by the loop and answered: it is never about to
\* send its request to a loop that has stopped.
C5_NoThirdOutcome ==
  \A c \in DOMAIN callers : callers[c].pc = "send" => d.pc # "stopped"

Approve(g) == Cardinality({p \in DOMAIN g.Votes : g.Votes[p]})

Reject(g) == Cardinality({p \in DOMAIN g.Votes : ~g.Votes[p]})

Silent(g) == g.NPlayers - Approve(g) - Reject(g)

\* C6: the tally reports majority iff approve - reject - silent > 0, that is
\* iff more than half of the roster approved; the session goes on to the
\* mission exactly on such a tally.
C6_Majority ==
  /\ d.pc = "voting_done" =>
       /\ calculateVote(game) <=> (Approve(game) - Reject(game) - Silent(game) > 0)
       /\ calculateVote(game) <=> (2 * Approve(game) > game.NPlayers)
  /\ game.State = STATE_MISSION => 2 * Approve(game) > game.NPlayers
  /\ (d.pc = "enter_pick" /\ game.State = STATE_VOTING) =>
       2 * Approve(game) <= game.NPlayers

\* two of five approve, one rejects, two are silent: no majority
C6_Witness ==
  /\ d.pc = "enter_pick"
  /\ game.State = STATE_VOTING
  /\ game.NPlayers = 5
  /\ Approve(game) = 2
  /\ Reject(game) = 1

\* mission k has been resolved by Mission.Execute
Resolved(k) ==
  \/ k < Len(game.Missions)
  \/ ~(/\ d.loop = "mission"
       /\ \/ d.pc \in {"mission", "reply"}
          \/ d.pc = "stopped" /\ d.op = "Abort")

Fails(m) == Cardinality({p \in m.Members : ~m.Votes[p]})

\* C7: a resolved mission has Success iff fewer than MinFail of its members
\* have the recorded vote false, with MinFail = Config.NFail[Round-1] of the
\* round it was created in.
C7_MissionOutcome ==
  \A k \in 1..Len(game.Missions) :
    LET m == game.Missions[k] IN
    /\ m.MinFail = game.Config.NFail[m.Round]
    /\ DOMAIN m.Votes = m.Members
    /\ Resolved(k) => (m.Success <=> Fails(m) < game.Config.NFail[m.Round])

\* a resolved mission that one member failed and that succeeded (MinFail 2)
C7_Witness ==
  \E k \in 1..Len(game.Missions) :
    /\ Resolved(k)
    /\ Fails(game.Missions[k]) = 1
    /\ game.Missions[k].Success
    /\ \E j \in 1..Len(game.Missions) :
         Resolved(j) /\ Fails(game.Missions[j]) = 1 /\ ~game.Missions[j].Success

Succeeded(g) == Cardinality({k \in 1..Len(g.Missions) : g.Missions[k].Success})

Failed(g) == Cardinality({k \in 1..Len(g.Missions) : ~g.Missions[k].Success})

\* C8: after each completed mission, with S succeeded, F failed, L played of
\* R rounds: spies win iff F > S + (R - L), Resistance wins iff
\* S > F + (R - L), otherwise the next round begins (Round + 1, back to
\* Pick); with R = 5 the game ends exactly when one side has 3 missions.
C8_WinEvaluation ==
  [][(d.pc = "mission_done" /\ d'.pc # "mission_done") =>
       LET S == Succeeded(game)
           F == Failed(game)
           R == game.Config.NRounds
           L == Len(game.Missions)
       IN /\ L = S + F
          /\ (d'.pc = "spywin") <=> (F > S + (R - L))
          /\ (d'.pc = "reswin") <=> (S > F + (R - L))
          /\ d'.pc \notin {"spywin", "reswin"} =>
               /\ d'.pc = "enter_pick"
               /\ game'.Round = game.Round + 1
          /\ R = 5 => ((d'.pc \in {"spywin", "reswin"}) <=> (F = 3 \/ S = 3))
    ]_vars

\* all five rounds were played before Resistance won
C8_Witness ==
  /\ d.pc = "reswin"
  /\ Len(game.Missions) = 5
  /\ Failed(game) = 2

\* C9: when the team vote fails in the GameVotingRound-th proposal of a
\* round, the session ends at once in SpyWin: the latch is set, SpyWin() is
\* true, ResistanceWin() false, the session is removed, and no Mission is
\* appended for the round, whatever the earlier missions were.
C9_ForcedSpyWin ==
  [][(/\ d.pc = "voting_done"
      /\ d'.pc # "voting_done"
      /\ 2 * Approve(game) <= game.NPlayers
      /\ game.VotingRound = GameVotingRound) =>
       /\ d'.pc = "stopped"
       /\ game'.spyWonByRejection
       /\ SpyWin(game')
       /\ ~ResistanceWin(game')
       /\ GameID \notin games'
       /\ game'.State = STATE_IDLE
       /\ game'.Missions = game.Missions
       /\ Len(game.Missions) = game.Round - 1
    ]_vars

\* the vote was exhausted after two missions had succeeded
C9_Witness ==
  /\ d.pc = "stopped"
  /\ d.op = "Rejection"
  /\ game.spyWonByRejection
  /\ Succeeded(game) = 2
  /\ Failed(game) = 0

\* C10: on every entry into Pick, LeaderIndex becomes (LeaderIndex + 1) mod
\* NPlayers; no other step changes LeaderIndex.
C10_LeaderAdvances ==
  [][IF game'.State = STATE_PICK /\ game.State # STATE_PICK
     THEN game'.LeaderIndex = (game.LeaderIndex + 1) % game.NPlayers
     ELSE game'.LeaderIndex = game.LeaderIndex
    ]_vars

\* the leadership of a game of five has gone round once
C10_Witness ==
  /\ game.State = STATE_PICK
  /\ game.NPlayers = 5
  /\ game.LeaderIndex = 0
  /\ Len(game.Missions) >= 3

\* the control loop is about to answer an accepted request of operation op
Answering(op) == d.pc = "reply" /\ d.op = op /\ d.err = Nil

\* C11: every Resistance member of every mission has the recorded vote true,
\* whatever that member submitted; an accepted ExecuteMission notifies
\* OnExecuteMission once, with the submitted value; a Spy member's recorded
\* vote is the value that was submitted.
C11_ResistanceVoteCoerced ==
  /\ \A k \in 1..Len(game.Missions) :
       \A p \in game.Missions[k].Members :
         RoleOf(game, p) = ROLE_RESISTANCE => game.Missions[k].Votes[p]
  /\ Answering("ExecuteMission") =>
       /\ Cardinality(notified) = 1
       /\ \A ev \in notified :
            LET m == game.Missions[Len(game.Missions)] IN
            /\ ev.on = "OnExecuteMission"
            /\ ev.err = Nil
            /\ ev.arg \in {"true", "false"}
            /\ ev.who \in m.Members
            /\ RoleOf(game, ev.who) = ROLE_SPY => m.Votes[ev.who] = (ev.arg = "true")
            /\ RoleOf(game, ev.who) = ROLE_RESISTANCE => m.Votes[ev.who]

\* a Resistance member has just submitted false, next to a Spy member whose
\* false is recorded
C11_Witness ==
  /\ Answering("ExecuteMission")
  /\ LET m == game.Missions[Len(game.Missions)] IN
     /\ \E ev \in notified :
          /\ ev.arg = "false"
          /\ RoleOf(game, ev.who) = ROLE_RESISTANCE
          /\ m.Votes[ev.who]
     /\ \E q \in m.Members : RoleOf(game, q) = ROLE_SPY /\ ~m.Votes[q]

\* C12: a NewGame call for an ID that maps to a session returns that session
\* and changes nothing: not its State, roster, Round, Picks, Votes or
\* Missions, not its control loop, not the registry; so does the second of
\* two NewGame calls that race for the same ID.
C12_NewGameIdempotent ==
  [][\A c \in DOMAIN callers :
       (callers[c].pc = "absent" /\ callers'[c].pc = "created" /\ GameID \in games) =>
         /\ game' = game
         /\ d' = d
         /\ games' = games
         /\ notified' = notified
         /\ \A k \in DOMAIN callers \ {c} : callers'[k] = callers[k]
    ]_vars

\* two callers hold the session NewGame returned to both: one call created
\* it, the other found it with its control loop already serving
C12_Witness ==
  /\ GameID \in games
  /\ d.pc = "init"
  /\ \E c1, c2 \in DOMAIN callers :
       c1 # c2 /\ callers[c1].pc = "created" /\ callers[c2].pc = "created"

\* C13: a session found in the registry has State # Idle, and a step removes
\* the session from the registry exactly when it sets its State to Idle: no
\* registry operation removes a session whose State stays as it was.
C13_RemovedIffIdle ==
  [][/\ GameID \in games' => game'.State # STATE_IDLE
     /\ (GameID \in games /\ GameID \notin games') <=>
          (game.State # STATE_IDLE /\ game'.State = STATE_IDLE)
    ]_vars

\* the roster has pairwise distinct IDs, as many players as NPlayers says,
\* and at most max of them
RosterOK(g, max) ==
  /\ Len(g.Players) = g.NPlayers
  /\ g.NPlayers <= max
  /\ \A i, j \in 1..Len(g.Players) : g.Players[i].ID = g.Players[j].ID => i = j

\* the control loop takes a request of operation op out of select loop `loop`
Handles(loop, op) == d.pc = loop /\ d'.op = op /\ d'.pc # loop

\* C14: the roster has pairwise distinct IDs, Len(Players) = NPlayers and
\* NPlayers <= conf.GameMaxPlayers in every state; an AddPlayer of an ID in
\* the roster or on a full roster returns an error and leaves the Game as it
\* was, any other AddPlayer appends the player.
C14_RosterInvariant ==
  [][/\ RosterOK(game', EnvGame.conf.GameMaxPlayers)
     /\ Handles("init", "AddPlayer") =>
          /\ Cardinality(notified') = 1
          /\ \A ev \in notified' :
               /\ ev.on = "OnAddPlayer"
               /\ ev.err = d'.err
               /\ IF game.NPlayers = EnvGame.conf.GameMaxPlayers
                  THEN d'.err = ErrFull /\ game' = game
                  ELSE IF ev.who \in PlayerIDs(game)
                  THEN d'.err = ErrDuplicate /\ game' = game
                  ELSE /\ d'.err = Nil
                       /\ game'.NPlayers = game.NPlayers + 1
                       /\ PlayerIDs(game') = PlayerIDs(game) \cup {ev.who}
                       /\ game'.Players[game'.NPlayers].ID = ev.who
    ]_vars

\* an AddPlayer was refused on a roster of conf.GameMaxPlayers players
C14_Witness ==
  /\ d.pc = "reply"
  /\ d.op = "AddPlayer"
  /\ d.err = ErrFull
  /\ game.NPlayers = EnvGame.conf.GameMaxPlayers
  /\ game.State = STATE_INITIALIZED

\* C15: once Game.start has returned nil, no step changes the roster (its
\* members, their order, their roles), NPlayers or Config.
C15_RosterFrozen ==
  [][StartSucceeded =>
       /\ game'.Players = game.Players
       /\ game'.NPlayers = game.NPlayers
       /\ game'.Config = game.Config
    ]_vars

\* a game of five in its third round
C15_Witness ==
  /\ StartSucceeded
  /\ game.NPlayers = 5
  /\ game.Round = 3
  /\ game.State = STATE_MISSION
  /\ d.pc = "reply"

\* C16: a Start request that fails changes nothing and the init loop goes on
\* serving: the Game is as it was (State Initialized, roster order, roles,
\* no Config) and the loop is back at its select once the error is
\* delivered.  A Start on a roster size without a table entry fails; one
\* that passes was sent by a roster player.
C16_FailedStartNoEffect ==
  [][/\ (Handles("init", "Start") /\ d'.from # 0) =>
          /\ d'.err # Nil =>
               /\ d'.pc = "reply"
               /\ d'.err \in {ErrStartRight, ErrNumPlayers}
               /\ game' = game
               /\ game'.State = STATE_INITIALIZED
               /\ game'.Config = NilConfig
          /\ game.NPlayers \notin {1, 5, 6, 7, 8, 9, 10} => d'.err # Nil
          /\ d'.err = Nil =>
               /\ d'.pc = "shuffle"
               /\ d'.starter \in PlayerIDs(game)
     /\ (d.pc = "reply" /\ d.op = "Start" /\ d.err # Nil /\ d' # d) =>
          /\ d' = AtLoop("init")
          /\ game' = game
          /\ game.Config = NilConfig
    ]_vars

\* a roster player's Start was refused on a roster of three
C16_Witness ==
  /\ d.pc = "reply"
  /\ d.op = "Start"
  /\ d.err = ErrNumPlayers
  /\ game.NPlayers = 3
  /\ game.State = STATE_INITIALIZED
  /\ \E ev \in notified : ev.who \in PlayerIDs(game)

\* C17: the session leaves Initialized only into Pick, after Game.start
\* returned nil, and then Round = 1, VotingRound = 1, Picks is empty, there
\* are no Missions, and the leader is the player at index 0 of the roster
\* as the shuffle left it.
C17_FirstPick ==
  [][(game.State = STATE_INITIALIZED /\ game'.State \notin {STATE_INITIALIZED, STATE_IDLE}) =>
       /\ StartSucceeded
       /\ game'.State = STATE_PICK
       /\ d'.pc = "pick"
       /\ game'.Round = 1
       /\ game'.VotingRound = 1
       /\ game'.Picks = {}
       /\ game'.Missions = <<>>
       /\ game'.LeaderIndex = 0
       /\ game'.Players = game.Players
       /\ leader(game') = game.Players[1]
    ]_vars

\* the first Pick phase of a game of five whose roster order the shuffle
\* changed
C17_Witness ==
  /\ game.State = STATE_PICK
  /\ d.pc = "pick"
  /\ game.Round = 1
  /\ game.VotingRound = 1
  /\ game.NPlayers = 5
  /\ game.LeaderIndex = 0
  /\ game.Players[1].ID # UserIDs[1]
  /\ game.Picks = {}

\* the size of the team of the round
TeamSize(g) == g.Config.NMembers[g.Round]

\* the session enters Voting only after an accepted DonePick of the leader,
\* with a team of the round's size
VotingByDonePick ==
  (game.State # STATE_VOTING /\ game'.State = STATE_VOTING) =>
    /\ d.pc = "enter_voting"
    /\ game.State = STATE_PICK
    /\ game'.Picks = game.Picks
    /\ Cardinality(game.Picks) = TeamSize(game)

\* an accepted DonePick is the leader's, on a team of the round's size
DonePickAccepted ==
  (Handles("pick", "DonePick") /\ d'.err = Nil) =>
    /\ notified' = {Ev("OnDonePick", leader(game).ID, "", Nil)}
    /\ Cardinality(game.Picks) = TeamSize(game)
    /\ game' = game

\* a Mission is appended with the Picks of the accepted DonePick as Members;
\* Picks only changes in the Pick phase
MembersArePicks ==
  /\ Len(game'.Missions) # Len(game.Missions) =>
       /\ Len(game'.Missions) = Len(game.Missions) + 1
       /\ game'.Missions[Len(game'.Missions)].Members = game.Picks
       /\ game'.Missions[Len(game'.Missions)].Round = game.Round
       /\ game'.Picks = game.Picks
  /\ \A k \in 1..Len(game.Missions) :
       /\ k <= Len(game'.Missions)
       /\ game'.Missions[k].Members = game.Missions[k].Members
  /\ game'.Picks # game.Picks => game'.State = STATE_PICK

\* C18 as stated: Voting is entered only through the leader's DonePick on a
\* team of Config.NMembers[Round-1] players, whenever State is Voting or
\* Mission Picks has that size, and every Mission's Members are the Picks of
\* that DonePick.
C18_TeamSizeWhileVotingOrMission ==
  [][/\ VotingByDonePick
     /\ DonePickAccepted
     /\ MembersArePicks
     /\ game'.State \in {STATE_VOTING, STATE_MISSION} =>
          Cardinality(game'.Picks) = TeamSize(game')
    ]_vars

\* C18, amended: the same, with the size of Picks stated for State Voting or
\* Mission up to the pause that follows a resolved mission, in which Round
\* is already the next round's while State is still Mission; every
\* Mission's Members number Config.NMembers[Mission.Round-1].
C18_TeamSize ==
  [][/\ VotingByDonePick
     /\ DonePickAccepted
     /\ MembersArePicks
     /\ (game'.State \in {STATE_VOTING, STATE_MISSION}
         /\ ~(game'.State = STATE_MISSION /\ d'.pc = "enter_pick")) =>
          Cardinality(game'.Picks) = TeamSize(game')
     /\ \A k \in 1..Len(game'.Missions) :
          Cardinality(game'.Missions[k].Members)
            = game'.Config.NMembers[game'.Missions[k].Round]
    ]_vars

\* the second mission of a game of five runs with its team of three
C18_Witness ==
  /\ game.State = STATE_MISSION
  /\ d.pc = "mission"
  /\ game.NPlayers = 5
  /\ Len(game.Missions) = 2
  /\ game.Missions[2].Members = game.Picks
  /\ Cardinality(game.Picks) = 3

\* C19: a Pick of the leader toggles its target: a roster player not in
\* Picks is added, a target in Picks is removed, so a second Pick of the
\* same target restores Picks; a target outside the roster yields an error
\* and leaves Picks as it was; Picks is a subset of the roster.
C19_PickToggles ==
  [][/\ game'.Picks \subseteq PlayerIDs(game')
     /\ (Handles("pick", "Pick") /\ d'.err # ErrPickRight) =>
          /\ Cardinality(notified') = 1
          /\ \A ev \in notified' :
               /\ ev.who = leader(game).ID
               /\ ev.err = d'.err
               /\ \/ /\ ev.on = "OnPick" /\ d'.err = Nil
                     /\ ev.arg \in PlayerIDs(game) \ game.Picks
                     /\ game' = [game EXCEPT !.Picks = @ \cup {ev.arg}]
                  \/ /\ ev.on = "OnUnpick" /\ d'.err = Nil
                     /\ ev.arg \in game.Picks
                     /\ game' = [game EXCEPT !.Picks = @ \ {ev.arg}]
                  \/ /\ ev.on = "OnPick" /\ d'.err = ErrPickUnknown
                     /\ game' = game
     /\ d.pc = "pick" =>
          \A t \in EnvGame.targets :
            LET data == [LeaderID |-> leader(game).ID, PlayerID |-> t]
                once == pick(game, data)
                twice == pick(once.game, data)
            IN IF t \in PlayerIDs(game)
               THEN /\ once.err = Nil /\ twice.err = Nil
                    /\ (t \in once.game.Picks) <=> (t \notin game.Picks)
                    /\ twice.game = game
               ELSE once.err = ErrPickUnknown /\ once.game = game
    ]_vars

\* the leader has just removed the only player of the proposal
C19_Witness ==
  /\ d.pc = "reply"
  /\ d.op = "Pick"
  /\ d.err = Nil
  /\ game.Picks = {}
  /\ game.NPlayers = 5
  /\ \E ev \in notified : ev.on = "OnUnpick" /\ ev.arg # ev.who

\* C20: a Pick or DonePick of an actor who is not the leader returns its
\* error to the caller, calls no EventHandler and leaves the Game as it was;
\* the loop then serves the Pick phase as before.
C20_WrongActorSilent ==
  [][/\ d.pc = "pick" =>
          \A l \in EnvGame.actors \ {leader(game).ID} :
            /\ donePick(game, l) = Res(game, ErrDoneRight, {})
            /\ \A t \in EnvGame.targets :
                 pick(game, [LeaderID |-> l, PlayerID |-> t]) = Res(game, ErrPickRight, {})
     /\ (Handles("pick", "Pick") \/ Handles("pick", "DonePick")) =>
          /\ d'.pc = "reply"
          /\ d'.err \in {ErrPickRight, ErrDoneRight} =>
               (notified' = {} /\ game' = game /\ callers'[d'.from].pc = "wait")
          /\ d'.err \notin {ErrPickRight, ErrDoneRight} => notified' # {}
     /\ (d.pc = "reply" /\ d.err \in {ErrPickRight, ErrDoneRight} /\ d' # d) =>
          /\ d' = AtLoop("pick")
          /\ game' = game
          /\ notified' = {}
          /\ callers'[d.from] = Returned(EnvGame)
    ]_vars

\* a DonePick of a player who is not the leader was refused while the
\* proposal was complete
C20_Witness ==
  /\ d.pc = "reply"
  /\ d.op = "DonePick"
  /\ d.err = ErrDoneRight
  /\ notified = {}
  /\ game.NPlayers = 5
  /\ Cardinality(game.Picks) = TeamSize(game)
  /\ game.State = STATE_PICK

\* C21: in a voting phase a roster player may vote again and again, each
\* accepted Vote replaces that player's entry and leaves the others, and the
\* tally is computed from the entries as the last Votes left them; Votes has
\* entries for roster players only, one each at most; a Vote of a non-player
\* returns an error and leaves Votes as it was.
C21_LastVoteCounts ==
  [][/\ DOMAIN game'.Votes \subseteq PlayerIDs(game')
     /\ Cardinality(DOMAIN game'.Votes) <= game'.NPlayers
     /\ Handles("voting", "Vote") =>
          /\ d'.pc = "reply"
          /\ game.State = STATE_VOTING
          /\ IF d'.err = Nil
             THEN /\ Cardinality(notified') = 1
                  /\ \A ev \in notified' :
                       /\ ev.on = "OnVote"
                       /\ ev.who \in PlayerIDs(game)
                       /\ game' = [game EXCEPT !.Votes = Put(@, ev.who, ev.arg = "true")]
                       /\ game'.Votes[ev.who] = (ev.arg = "true")
                       /\ \A q \in DOMAIN game.Votes \ {ev.who} :
                            game'.Votes[q] = game.Votes[q]
             ELSE /\ d'.err = ErrNotInGame
                  /\ game' = game
     /\ d.pc = "voting" =>
          /\ \A v \in EnvGame.votes :
               v[1] \notin PlayerIDs(game) =>
                 vote(game, [PlayerID |-> v[1], Vote |-> v[2]]).game = game
          /\ \A p \in DOMAIN game.Votes, b \in BOOLEAN :
               vote(game, [PlayerID |-> p, Vote |-> b]).game.Votes
                 = [game.Votes EXCEPT ![p] = b]
     /\ (game'.Votes # game.Votes /\ ~Handles("voting", "Vote")) =>
          (d.pc = "enter_voting" /\ game'.Votes = EmptyMap)
     /\ (d.pc = "voting_done" /\ d'.pc # "voting_done") =>
          \E ev \in notified' :
            /\ ev.on = "OnVotingDone"
            /\ ev.arg = BoolStr(2 * Cardinality({p \in PlayerIDs(game) :
                                   p \in DOMAIN game.Votes /\ game.Votes[p]})
                                > game.NPlayers)
    ]_vars

\* three of five have voted, and the third's vote, now false, has just been
\* recorded over the two approvals of the others
C21_Witness ==
  /\ d.pc = "reply"
  /\ d.op = "Vote"
  /\ d.err = Nil
  /\ game.NPlayers = 5
  /\ DOMAIN game.Votes = Users(3)
  /\ ~game.Votes[UserIDs[3]]
  /\ \E ev \in notified : ev.who = UserIDs[3] /\ ev.arg = "false"

\* C22: every command that fails with a domain error other than a
\* wrong-leader rejection returns the error to its caller and notifies the
\* EventHandler of that error: when the control loop answers a request with
\* such an error, one of the calls of that step carries the error.
C22_ErrorsNotified ==
  (d.pc = "reply" /\ d.err \notin {Nil, ErrPickRight, ErrDoneRight}) =>
    \E ev \in notified : ev.err = d.err

\* the operations that check State, and the State each requires
Gated == {"AddPlayer", "Start", "Pick", "DonePick", "Vote", "ExecuteMission"}

Phase(op) ==
  CASE op \in {"AddPlayer", "Start"} -> STATE_INITIALIZED
    [] op \in {"Pick", "DonePick"} -> STATE_PICK
    [] op = "Vote" -> STATE_VOTING
    [] op = "ExecuteMission" -> STATE_MISSION

\* C23: a call of AddPlayer or Start when State is not Initialized, of Pick
\* or DonePick when State is not Pick, of Vote when State is not Voting, of
\* ExecuteMission when State is not Mission returns its error at once:
\* nothing is sent to the control loop, and the Game, the loop, the registry
\* and the notifications are as they were.
C23_WrongStateRejected ==
  [][\A c \in DOMAIN callers :
       /\ (callers[c].pc = "loaded" /\ callers'[c] # callers[c]) =>
            /\ game' = game /\ d' = d /\ games' = games /\ notified' = notified
            /\ IF callers'[c].op \in Gated /\ game.State # Phase(callers'[c].op)
               THEN callers'[c].pc = "failed"
               ELSE callers'[c].pc = "send"
       /\ (callers[c].pc = "failed" /\ callers'[c] # callers[c]) =>
            /\ callers'[c] = Returned(EnvWeb)
            /\ game' = game /\ d' = d /\ games' = games /\ notified' = notified
       /\ callers'[c].pc = "wait" => callers[c].pc \in {"send", "wait"}
    ]_vars

\* a Vote called while a mission runs has returned its error
C23_Witness ==
  \E c \in DOMAIN callers :
    /\ callers[c] = [pc |-> "failed", op |-> "Vote"]
    /\ game.State = STATE_MISSION
    /\ d.pc = "mission"

\* the callers whose request the control loop has taken and not yet answered
Waiting == {c \in DOMAIN callers : callers[c].pc = "wait"}

\* the control loop is between the receipt of a request and its response
Busy == d.pc \in {"reply", "shuffle", "roles"} /\ d.from # 0

\* C24: only steps of the control loop change the Game, and the loop handles
\* one request at a time: at most one caller has a request taken and not
\* answered, and from the receipt of a request to its response the loop
\* takes no other request and no timer event, however the callers race.
C24_OneRequestAtATime ==
  [][/\ game' # game => d' # d
     /\ (callers' # callers /\ d' = d) => (game' = game /\ games' = games)
     /\ Cardinality(Waiting') <= 1
     /\ \A c \in Waiting' : d'.from = c /\ d'.pc \in {"reply", "shuffle", "roles", "stopped"}
     /\ (d'.from # 0 /\ d'.from # d.from) => (d.pc \in Loops /\ Waiting = {})
     /\ (Busy /\ d' # d) =>
          IF d.pc = "reply"
          THEN /\ Waiting = {d.from}
               /\ Waiting' = {}
               /\ callers'[d.from] = Returned(EnvSpec)
               /\ d'.pc \in {d.loop, "enter_pick", "enter_voting"}
               /\ d'.from = 0
          ELSE /\ d'.pc \in {"shuffle", "roles", "reply"}
               /\ d'.from = d.from
               /\ d'.op = d.op
               /\ callers' = callers
    ]_vars

\* the loop is about to answer the Vote of one caller while another caller
\* is blocked sending its own Vote
C24_Witness ==
  /\ d.pc = "reply"
  /\ d.op = "Vote"
  /\ Waiting = {d.from}
  /\ \E c \in DOMAIN callers : c # d.from /\ callers[c] = [pc |-> "send", op |-> "Vote"]

\* the positions at which the control loop has called an EventHandler
\* callback in its own goroutine: its only step there is the callback's
\* return (OnCreateReturns, MissionDoneReturns, WinReturns)
AwaitsCallback == d.pc \in {"create", "mission_done", "spywin", "reswin"}

\* C25: the control loop never waits for an EventHandler callback: while the
\* calls of its latest step are outstanding it is at a position from which
\* it goes on by itself (a select loop, a response, a pause, or returned
\* after cleanup), whether or not the callback ever returns.
C25_CallbacksNotAwaited ==
  notified # {} => ~AwaitsCallback

\* C26: on every entry into Pick Len(Missions) = Round - 1; a Mission is
\* appended exactly by the tally of a team vote that reached majority, one
\* for its round, and by no other step; Missions only grows, the missions
\* before the latest never change, and the k-th mission has Round = k.
C26_MissionsPerRound ==
  [][/\ (game.State # STATE_PICK /\ game'.State = STATE_PICK) =>
          Len(game'.Missions) = game'.Round - 1
     /\ \A k \in 1..Len(game'.Missions) : game'.Missions[k].Round = k
     /\ Len(game'.Missions) <= game'.Round
     /\ Len(game'.Missions) >= Len(game.Missions)
     /\ \A k \in 1..Len(game.Missions) :
          /\ k < Len(game.Missions) => game'.Missions[k] = game.Missions[k]
          /\ game'.Missions[k].Round = game.Missions[k].Round
          /\ game'.Missions[k].Members = game.Missions[k].Members
          /\ game'.Missions[k].MinFail = game.Missions[k].MinFail
     /\ (d.pc = "voting_done" /\ d'.pc # "voting_done") =>
          IF 2 * Approve(game) > game.NPlayers
          THEN /\ Len(game'.Missions) = Len(game.Missions) + 1
               /\ game'.Missions[Len(game'.Missions)].Round = game.Round
               /\ Len(game.Missions) = game.Round - 1
          ELSE game'.Missions = game.Missions
     /\ Len(game'.Missions) # Len(game.Missions) => d.pc = "voting_done"
    ]_vars

\* the second proposal of round 2 begins: one mission was run, the first
\* proposal of this round was voted down and appended none
C26_Witness ==
  /\ game.State = STATE_PICK
  /\ d.pc = "pick"
  /\ game.Round = 2
  /\ game.VotingRound = 2
  /\ Len(game.Missions) = 1
  /\ game.NPlayers = 5

\* C27: when a Mission is created the vote of every member is true, of a Spy
\* as of a Resistance member; the mission timer changes no vote, so a
\* mission whose votes are still all true when the timer fires (no member
\* submitted a choice) is recorded as a success.
C27_DefaultSuccess ==
  [][/\ Len(game'.Missions) > Len(game.Missions) =>
          LET m == game'.Missions[Len(game'.Missions)] IN
          /\ DOMAIN m.Votes = m.Members
          /\ \A p \in m.Members : m.Votes[p]
          /\ m.MinFail >= 1
     /\ (d.pc = "mission" /\ d'.pc = "mission_done") =>
          LET k == Len(game.Missions) IN
          /\ game'.Missions[k].Votes = game.Missions[k].Votes
          /\ (\A p \in game.Missions[k].Members : game.Missions[k].Votes[p]) =>
               game'.Missions[k].Success
     /\ (d.pc = "voting_done" /\ d'.pc = "mission") =>
          Execute(game'.Missions[Len(game'.Missions)]).Success
    ]_vars

\* the timer has resolved as a success a mission of two with a Spy member
\* whose vote is true
C27_Witness ==
  /\ d.pc = "mission_done"
  /\ game.NPlayers = 5
  /\ LET m == game.Missions[Len(game.Missions)] IN
     /\ m.Success
     /\ Cardinality(m.Members) = 2
     /\ \A p \in m.Members : m.Votes[p]
     /\ \E p \in m.Members : RoleOf(game, p) = ROLE_SPY

\* the initialization timer fires in the init loop
InitTimerFires == d.pc = "init" /\ d'.pc # "init" /\ d'.from = 0

\* what the initialization timer does: Start as "timer", or the abort by
\* "system"
TimerStartOrAbort ==
  /\ InitTimerFires =>
       IF game.NPlayers \in {1, 5, 6, 7, 8, 9, 10}
       THEN /\ d'.pc = "shuffle"
            /\ d'.starter = Nil
            /\ game'.Config = gameConfigMap[game.NPlayers]
            /\ GameID \in games'
       ELSE /\ d'.pc = "stopped"
            /\ GameID \notin games'
            /\ game'.State = STATE_IDLE
            /\ Ev("OnAbort", Nil, "", Nil) \in notified'
            /\ \E ev \in notified' : ev.on = "OnStart" /\ ev.err = ErrNumPlayers
  /\ (d.pc = "roles" /\ d.from = 0 /\ d'.pc # "roles") =>
       (d'.pc = "enter_pick" /\ game'.Round = 1)
  /\ (d.pc = "enter_pick" /\ game.State = STATE_INITIALIZED /\ d' # d) =>
       (game'.State = STATE_PICK /\ game'.Round = 1)

\* C28: when the initialization timer fires the loop performs Start as
\* "timer": a supported roster goes on to Pick with Round = 1, an
\* unsupported one is aborted by "system" (removed, State Idle, OnAbort with
\* a nil player); and no session stays Initialized forever: the control loop
\* never returns leaving State Initialized.
C28_InitializedEnds ==
  [][/\ TimerStartOrAbort
     /\ game'.State = STATE_INITIALIZED => d'.pc # "stopped"
    ]_vars

C30_VotingRoundCounts ==
  [][/\ (/\ d.pc = "voting_done"
         /\ d' # d
         /\ 2 * Approve(game) <= game.NPlayers
         /\ game.VotingRound < EnvGame.conf.GameVotingRound) =>
          (d'.pc = "enter_pick" /\ game' = game /\ GameID \in games')
     /\ (game.State # STATE_PICK /\ game'.State = STATE_PICK) =>
          /\ d.pc = "enter_pick"
          /\ game'.Round = game.Round
          /\ game'.VotingRound = game.VotingRound + 1
          /\ game'.Picks = {}
          /\ game'.Missions = game.Missions
     /\ game'.VotingRound # game.VotingRound =>
          \/ game.State # STATE_PICK /\ game'.State = STATE_PICK
          \/ game'.Round = game.Round + 1 /\ game'.VotingRound = 0
     /\ game'.Round # game.Round => game'.VotingRound = 0
     /\ game'.State \in {STATE_PICK, STATE_VOTING} =>
          /\ game'.VotingRound >= 1
          /\ game'.VotingRound <= EnvGame.conf.GameVotingRound
    ]_vars

\* the second proposal of the first round of a game of five has just been
\* opened
C30_Witness ==
  /\ game.State = STATE_PICK
  /\ d.pc = "pick"
  /\ game.Round = 1
  /\ game.VotingRound = 2
  /\ game.Picks = {}
  /\ game.Missions = <<>>
  /\ game.NPlayers = 5
  /\ \E ev \in notified : ev.on = "OnStartPick"

\* C31: a DonePick of the leader on a team whose size is not the round's
\* returns the error, notifies it through OnPick and not OnDonePick, and
\* leaves the session in Pick: the Game (Picks, LeaderIndex, Round,
\* VotingRound, State) is as it was and the loop is back at the pick select
\* once the error is delivered.
C31_WrongCountStaysInPick ==
  [][/\ d.pc = "pick" =>
          LET r == donePick(game, leader(game).ID) IN
          (Cardinality(game.Picks) # TeamSize(game)) <=> (r.err = ErrPickCount)
     /\ (Handles("pick", "DonePick") /\ d'.err = ErrPickCount) =>
          /\ Cardinality(game.Picks) # TeamSize(game)
          /\ d'.pc = "reply"
          /\ notified' = {Ev("OnPick", leader(game).ID, Nil, ErrPickCount)}
          /\ game' = game
          /\ game'.State = STATE_PICK
     /\ (d.pc = "reply" /\ d.op = "DonePick" /\ d.err = ErrPickCount /\ d' # d) =>
          /\ d' = AtLoop("pick")
          /\ game' = game
          /\ game.State = STATE_PICK
    ]_vars

\* the leader of a game of five called DonePick with one player picked for
\* a team of two
C31_Witness ==
  /\ d.pc = "reply"
  /\ d.op = "DonePick"
  /\ d.err = ErrPickCount
  /\ game.NPlayers = 5
  /\ game.Round = 1
  /\ Cardinality(game.Picks) = 1
  /\ game.State = STATE_PICK
  /\ \E ev \in notified : ev.on = "OnPick" /\ ev.who = leader(game).ID

\* C32: every registry operation runs under the one registry lock in such a
\* way that an insertion or deletion of a mapping never runs next to another
\* registry read or write: while a caller is inside NewGame or DeleteGame no
\* other caller is inside a registry operation.
C32_RegistryWritesExclusive ==
  \A c \in DOMAIN callers :
    callers[c].pc \in {"in_new", "in_delete"} =>
      \A k \in DOMAIN callers \ {c} : callers[k].pc \notin Sections

\* C33: a request is applied in the phase instance in which it was issued:
\* when the control loop takes a Vote, Pick, DonePick or ExecuteMission
\* request, the proposal under way is the one during which the caller
\* passed the State check, so no vote is held back and counted on a later
\* proposal.
C33_AppliedWhereIssued ==
  [][\A op \in {"Vote", "Pick", "DonePick", "ExecuteMission"} :
       (\E loop \in Loops : Handles(loop, op)) =>
         callers[d'.from].at = PhaseOf(game)
    ]_vars

\* C34: Round never exceeds Config.NRounds: once the mission of round
\* NRounds is resolved SpyWin or ResistanceWin holds, so at most NRounds
\* missions are played, and wherever Config.NMembers[Round-1] and
\* Config.NFail[Round-1] are read (donePick in the pick loop, startMission
\* after the tally) Round is an index of both tables.
C34_RoundWithinTable ==
  game.Config # NilConfig =>
    /\ game.Round <= game.Config.NRounds
    /\ Len(game.Missions) <= game.Config.NRounds
    /\ Len(game.Config.NMembers) = game.Config.NRounds
    /\ Len(game.Config.NFail) = game.Config.NRounds
    /\ d.pc \in {"pick", "voting_done"} =>
         /\ game.Round \in DOMAIN game.Config.NMembers
         /\ game.Round \in DOMAIN game.Config.NFail
    /\ (Len(game.Missions) = game.Config.NRounds /\ Resolved(game.Config.NRounds)) =>
         (SpyWin(game) \/ ResistanceWin(game))

\* the mission of the fifth round was resolved and gave the spies their
\* third failure
C34_Witness ==
  /\ d.pc = "spywin"
  /\ game.Round = 5
  /\ Len(game.Missions) = 5
  /\ game.Config.NRounds = 5
  /\ Failed(game) = 3

\* C35: SpyWin() and ResistanceWin() are never both true, and Over() is
\* false while the session is in Initialized, Pick, Voting or Mission with
\* its control loop at a select, waiting for commands.
C35_NotOverWhileServing ==
  /\ ~(SpyWin(game) /\ ResistanceWin(game))
  /\ (d.pc \in Loops /\ game.State # STATE_IDLE) => ~Over(game)

\* the control loop serves select loop `loop`: it is at the select or
\* answers a request taken there
Serving(loop) == d.loop = loop /\ d.pc \in {loop, "reply"}

\* the step by which the timer of select loop `loop` ends the phase: taken
\* at the select, with no request involved
TimerEnds(loop, done) ==
  /\ d.pc = loop
  /\ d'.pc = done
  /\ callers' = callers
  /\ game'.Votes = game.Votes
  /\ Len(game'.Missions) = Len(game.Missions)

\* the loop returns on an Abort request
AbortEnds == d'.pc = "stopped" /\ d'.op = "Abort"

\* C36: the Voting phase and the Mission phase are left only by their timer
\* or by Abort: a processed Vote or ExecuteMission is answered and the loop
\* is back at the same select, however many have been processed, even one
\* of every player or member; the tally is not taken and the mission is not
\* resolved before the timer.
C36_OnlyTimerEndsPhase ==
  [][/\ (Serving("voting") /\ ~Serving("voting")') =>
          (TimerEnds("voting", "voting_done") \/ AbortEnds)
     /\ (Serving("mission") /\ ~Serving("mission")') =>
          (TimerEnds("mission", "mission_done") \/ AbortEnds)
     /\ (Handles("voting", "Vote") \/ Handles("mission", "ExecuteMission")) =>
          (d'.pc = "reply" /\ game'.State = game.State)
     /\ (d.pc = "reply" /\ d.op \in {"Vote", "ExecuteMission"} /\ d' # d) =>
          (d' = AtLoop(d.loop) /\ game' = game)
     /\ Serving("mission")' =>
          ~game'.Missions[Len(game'.Missions)].Success
    ]_vars

\* every player has approved the team and the loop is back at the voting
\* select, waiting for its timer
C36_Witness ==
  /\ d.pc = "voting"
  /\ game.State = STATE_VOTING
  /\ game.NPlayers >= 1
  /\ DOMAIN game.Votes = PlayerIDs(game)
  /\ \A p \in PlayerIDs(game) : game.Votes[p]

\* the callers that are receiving on the response channel of the operation
\* the control loop is answering
Receiving == {c \in DOMAIN callers : callers[c].pc = "wait" /\ callers[c].op = d.op}

\* C37: when callers race on one operation, the response goes to the caller
\* whose request was computed: while the loop sends a response, the only
\* caller receiving on that operation's response channel is the one whose
\* request it took, and that caller alone returns with the response; the
\* others stay blocked in their send.
C37_ResponseToRequester ==
  [][/\ d'.pc = "reply" => Receiving' = {d'.from}
     /\ (d.pc = "reply" /\ d' # d) =>
          /\ callers[d.from] = [pc |-> "wait", op |-> d.op]
          /\ callers'[d.from] = Returned(EnvSpec)
          /\ \A k \in DOMAIN callers \ {d.from} : callers'[k] = callers[k]
     /\ \A c \in DOMAIN callers :
          (callers[c].pc = "send" /\ callers'[c].pc = "wait") =>
            (d'.from = c /\ d'.op = callers[c].op)
    ]_vars

\* the loop answers the AddPlayer of one caller while the other caller is
\* blocked sending its own AddPlayer
C37_Witness ==
  /\ d.pc = "reply"
  /\ d.op = "AddPlayer"
  /\ Receiving = {d.from}
  /\ \E c \in DOMAIN callers :
       c # d.from /\ callers[c] = [pc |-> "send", op |-> "AddPlayer"]

\* the Spy members of mission m
SpyMembers(m) == {p \in m.Members : RoleOf(game, p) = ROLE_SPY}

\* C38: in every mission the number of recorded false votes is at most the
\* number of Spy members of its team, so a resolved mission whose team holds
\* fewer Spy members than MinFail has Success, whatever its members
\* submitted.
C38_FailsBoundedBySpies ==
  \A k \in 1..Len(game.Missions) :
    LET m == game.Missions[k] IN
    /\ Fails(m) <= Cardinality(SpyMembers(m))
    /\ countFail(m.Votes, DOMAIN m.Votes) <= Cardinality(SpyMembers(m))
    /\ (Resolved(k) /\ Cardinality(SpyMembers(m)) < m.MinFail) => m.Success

\* a member of a running mission whose team holds fewer Spy members than
\* MinFail has just submitted false, and no false vote is recorded
C38_Witness ==
  /\ Answering("ExecuteMission")
  /\ \E ev \in notified : ev.arg = "false"
  /\ LET m == game.Missions[Len(game.Missions)] IN
     /\ Cardinality(SpyMembers(m)) < m.MinFail
     /\ Fails(m) = 0

====
